---- MODULE Spec2Model ----
(***************************************************************************)
(* A model of the computation core of fplPEP (src/tool.py, FPLManager):    *)
(* the lineup optimizer, the fixture-difficulty resolver, the              *)
(* expected-points engine, the player filter and the backtest.             *)
(*                                                                         *)
(* Numbers that are floats in the program are exact here: a player's xp    *)
(* and cap_score are integers (only their order is used by the lineup      *)
(* code).                                                                  *)
(***************************************************************************)
EXTENDS Integers, Sequences, FiniteSets, TLC

VARIABLES
    \* _optimize_lineup
    squad_xp,       \* the caller's list handed to _optimize_lineup (sorted in place)
    squad_in,       \* history variable: the list as it was before the first call
    starters,       \* last returned starters
    bench,          \* last returned bench
    captain,        \* last returned captain (None when unset)
    vice_captain,   \* last returned vice-captain (None when unset)
    prev,           \* history variable: the result of the call before the last one
    calls,          \* number of _optimize_lineup calls made on squad_xp
    \* the data the resolver and the engine read
    teams,          \* the team index: team id -> [name, strength_d, strength_a]
    custom_fdr,     \* self.custom_fdr: team name -> [H, A]
    \* get_fixture_difficulty
    fdr_call,       \* the arguments of the last call: [fixture, team_id], or NoCall
    fdr_result,     \* what the last call returned
    \* _calculate_fixture_multiplier
    mult_seen,      \* difficulty -> the multiplier returned for it, for the calls made
    \* calculate_xp
    player,         \* the player record
    history,        \* the player's history list, oldest first
    fixtures,       \* the fixture list handed in (its records are enriched in place)
    fixtures_in,    \* history variable: the fixture list before the call
    xp_pc,          \* "idle", "ready", "returned" or "raised"
    xp_out,         \* what calculate_xp returned: [total_xp, gw_points, breakdowns]
    \* _calculate_weighted_form
    form_out,       \* what the call on history returned, or Absent before it
    \* _calculate_cap_score
    cap_call,       \* the arguments of the call: [position, selected_by_percent, next_gw_xp]
    cap_out,        \* what the call on cap_call and history returned, or Absent before it
    \* the upstream league API
    bootstrap,      \* bootstrap-static: [events, elements, teams]
    picks,          \* gameweek -> the entry's picks of that gameweek
    summaries,      \* element id -> [fixtures, history] of element-summary
    \* the manager's caches
    bootstrap_static_cache,  \* NoBootstrap or the payload last fetched
    player_summary_cache,    \* element id -> [fixtures, history]
    \* fetch_and_filter_data
    fetch_call,     \* the arguments of the last call, or NoFetch
    fetch_out,      \* the rows of the data frame the last call returned
    \* get_model_performance
    perf_out        \* the runs made: [num_weeks, team_id, results] each

lineupVars == <<squad_xp, squad_in, starters, bench, captain, vice_captain, prev, calls>>
dataVars == <<teams, custom_fdr>>
fdrVars == <<fdr_call, fdr_result>>

xpVars == <<player, history, fixtures, fixtures_in, xp_pc, xp_out>>

formVars == <<form_out>>
capVars == <<cap_call, cap_out>>
upstreamVars == <<bootstrap, picks, summaries>>
cacheVars == <<bootstrap_static_cache, player_summary_cache>>
fetchVars == <<fetch_call, fetch_out>>
backtestVars == <<upstreamVars, cacheVars, perf_out>>

vars ==
    <<lineupVars, dataVars, fdrVars, mult_seen, xpVars, formVars, capVars, fetchVars,
      backtestVars>>

----------------------------------------------------------------------------
(* Bounds of the model.                                                    *)

\* xp values are drawn from 0..MaxXp
MaxXp == 1
\* cap_score values are drawn from 0..MaxCap
MaxCap == 1
\* squads of arbitrary order and composition have at most MaxSmall players
MaxSmall == 2
\* a block-built squad has up to Extra players more than a legal squad, per position
Extra == 1
\* _optimize_lineup is called at most MaxCalls times on the same list
MaxCalls == 2
\* override values are drawn from 0..MaxOverride (1..5 is the documented range)
MaxOverride == 6
\* a history has at most MaxHist records
MaxHist == 2
\* a fixture list has at most MaxFixtures fixtures
MaxFixtures == 2
\* the set-piece orders of a player are drawn from 0..MaxOrder
MaxOrder == 1
\* a history handed to the weighted form has at most MaxFormHist records
MaxFormHist == 6
\* the total_points of such a record are drawn from 0..MaxPoints
MaxPoints == 2
\* get_model_performance is run at most MaxRuns times on a manager
MaxRuns == 2
\* and asked for 1..MaxWeeks gameweeks
MaxWeeks == 2
\* a history handed to the cap score has at most MaxCapHist records
MaxCapHist == 4

----------------------------------------------------------------------------
(* Positions (element_type) and the formation numbers of _optimize_lineup. *)

PosGK == 1
PosDEF == 2
PosMID == 3
PosFWD == 4
Positions == {PosGK, PosDEF, PosMID, PosFWD}

CoreDef == 3
CoreMid == 2
CoreFwd == 1
MaxStarters == 11
CapDef == 5
CapMid == 5
CapFwd == 3

\* Python's None for captain / vice_captain
None == [id |-> 0, position |-> 0, xp |-> 0, cap_score |-> 0]

Player(i, pos, x, c) == [id |-> i, position |-> pos, xp |-> x, cap_score |-> c]

----------------------------------------------------------------------------
(* list.sort(key=..., reverse=True): a stable sort, descending by the key; *)
(* elements with equal keys keep their relative order.                     *)

\* a sort that is not stable: equal keys come out in reversed order
InsertUnstable(sorted, p, key) ==
    LET n == Cardinality({i \in 1..Len(sorted) : sorted[i][key] > p[key]})
    IN  SubSeq(sorted, 1, n) \o <<p>> \o SubSeq(sorted, n + 1, Len(sorted))

\* p put behind every element of the descending list whose key is not smaller
InsertStable(sorted, p, key) ==
    LET n == Cardinality({i \in 1..Len(sorted) : sorted[i][key] >= p[key]})
    IN  SubSeq(sorted, 1, n) \o <<p>> \o SubSeq(sorted, n + 1, Len(sorted))

\* no sort at all: the list is left in the caller's order
SortNone(s, key) == s

RECURSIVE SortDesc(_, _)
SortDesc(s, key) ==
    IF s = <<>> THEN <<>>
    ELSE InsertStable(SortDesc(SubSeq(s, 1, Len(s) - 1), key), s[Len(s)], key)

Take(s, n) == SubSeq(s, 1, IF Len(s) < n THEN Len(s) ELSE n)
Drop(s, n) == SubSeq(s, n + 1, Len(s))
ByPosition(s, pos) == SelectSeq(s, LAMBDA p : p.position = pos)
CountPos(s, pos) == Len(ByPosition(s, pos))

----------------------------------------------------------------------------
(* _optimize_lineup, src/tool.py 786-847.                                  *)

\* lines 806-810: the best GK starts, every other GK goes to the bench
GkStarters(gks) == Take(gks, 1)

\* the spare goalkeepers forgotten
GkBenchForgotten(gks) == <<>>

GkBench(gks) == Drop(gks, 1)

\* lines 812-815: the core outfield
CoreStarters(gks, defs, mids, fwds) ==
    GkStarters(gks) \o Take(defs, CoreDef) \o Take(mids, CoreMid) \o Take(fwds, CoreFwd)

\* the candidates left in the order DEF, MID, FWD, not sorted by xp
RemainingUnsorted(defs, mids, fwds) ==
    Drop(defs, CoreDef) \o Drop(mids, CoreMid) \o Drop(fwds, CoreFwd)

\* lines 817-818
RemainingOutfield(defs, mids, fwds) ==
    SortDesc(Drop(defs, CoreDef) \o Drop(mids, CoreMid) \o Drop(fwds, CoreFwd), "xp")

\* the fill loop without its check of the number of starters
FillStepNoLimit(acc, p) ==
    IF p.position = PosDEF /\ acc.n_def < CapDef
    THEN [acc EXCEPT !.starters = Append(@, p), !.n_def = @ + 1]
    ELSE IF p.position = PosMID /\ acc.n_mid < CapMid
    THEN [acc EXCEPT !.starters = Append(@, p), !.n_mid = @ + 1]
    ELSE IF p.position = PosFWD /\ acc.n_fwd < CapFwd
    THEN [acc EXCEPT !.starters = Append(@, p), !.n_fwd = @ + 1]
    ELSE [acc EXCEPT !.bench = Append(@, p)]

\* the fill loop with the DEF cap one too high
FillStepLooseCap(acc, p) ==
    IF Len(acc.starters) = MaxStarters
    THEN [acc EXCEPT !.bench = Append(@, p)]
    ELSE IF p.position = PosDEF /\ acc.n_def < CapDef + 1
    THEN [acc EXCEPT !.starters = Append(@, p), !.n_def = @ + 1]
    ELSE IF p.position = PosMID /\ acc.n_mid < CapMid
    THEN [acc EXCEPT !.starters = Append(@, p), !.n_mid = @ + 1]
    ELSE IF p.position = PosFWD /\ acc.n_fwd < CapFwd
    THEN [acc EXCEPT !.starters = Append(@, p), !.n_fwd = @ + 1]
    ELSE [acc EXCEPT !.bench = Append(@, p)]

\* lines 825-840: one iteration of the fill loop on the accumulator
\* acc = [starters, bench, n_def, n_mid, n_fwd]
FillStep(acc, p) ==
    IF Len(acc.starters) = MaxStarters
    THEN [acc EXCEPT !.bench = Append(@, p)]
    ELSE IF p.position = PosDEF /\ acc.n_def < CapDef
    THEN [acc EXCEPT !.starters = Append(@, p), !.n_def = @ + 1]
    ELSE IF p.position = PosMID /\ acc.n_mid < CapMid
    THEN [acc EXCEPT !.starters = Append(@, p), !.n_mid = @ + 1]
    ELSE IF p.position = PosFWD /\ acc.n_fwd < CapFwd
    THEN [acc EXCEPT !.starters = Append(@, p), !.n_fwd = @ + 1]
    ELSE [acc EXCEPT !.bench = Append(@, p)]

RECURSIVE FillLoop(_, _)
FillLoop(acc, remaining) ==
    IF remaining = <<>> THEN acc
    ELSE FillLoop(FillStep(acc, Head(remaining)), Tail(remaining))

\* the captain taken from the wrong end of the ranking
PickCaptainLast(ranked) == IF Len(ranked) > 0 THEN ranked[Len(ranked)] ELSE None

\* the vice-captain taken from the captain's place
PickViceCaptainFirst(ranked) == IF Len(ranked) > 1 THEN ranked[1] ELSE None

\* lines 842-845
PickCaptain(ranked) == IF Len(ranked) > 0 THEN ranked[1] ELSE None
PickViceCaptain(ranked) == IF Len(ranked) > 1 THEN ranked[2] ELSE None

\* the whole function: the list after the in-place sort and the returned tuple
OptimizeLineup(squad) ==
    LET sorted == SortDesc(squad, "xp")
        gks == ByPosition(sorted, PosGK)
        defs == ByPosition(sorted, PosDEF)
        mids == ByPosition(sorted, PosMID)
        fwds == ByPosition(sorted, PosFWD)
        core == CoreStarters(gks, defs, mids, fwds)
        acc0 == [starters |-> core, bench |-> GkBench(gks),
                 n_def |-> CountPos(core, PosDEF), n_mid |-> CountPos(core, PosMID),
                 n_fwd |-> CountPos(core, PosFWD)]
        filled == FillLoop(acc0, RemainingOutfield(defs, mids, fwds))
        ranked == SortDesc(filled.starters, "cap_score")
    IN  [squad_xp |-> sorted, starters |-> ranked, bench |-> filled.bench,
         captain |-> PickCaptain(ranked), vice_captain |-> PickViceCaptain(ranked)]

----------------------------------------------------------------------------
(* The squads handed to _optimize_lineup.                                  *)

RECURSIVE SeqsUpTo(_, _)
SeqsUpTo(S, n) ==
    IF n = 0 THEN {<<>>}
    ELSE LET shorter == SeqsUpTo(S, n - 1)
         IN  shorter \cup {Append(s, x) : s \in {t \in shorter : Len(t) = n - 1}, x \in S}

\* players in arbitrary order with arbitrary positions and values; ids are
\* the positions in the caller's list
SmallSquads ==
    LET Vals == Positions \X (0..MaxXp) \X (0..MaxCap)
    IN  {[i \in 1..Len(s) |-> Player(i, s[i][1], s[i][2], s[i][3])] : s \in SeqsUpTo(Vals, MaxSmall)}

\* a block of n players of one position in the caller's list: the first k
\* have xp 0 and the others MaxXp, so the block is ascending in xp as the
\* blocks of src/tests/test_tool.py 144-175 are
BlockXp(n, k) == [i \in 1..n |-> IF i <= k THEN 0 ELSE MaxXp]

\* cap_score rules for block-built squads: equal to xp, opposed to xp,
\* alternating with the place in the list
CapRules == {"xp", "inverse", "alternate"}
CapOf(rule, i, x) ==
    CASE rule = "xp" -> x
      [] rule = "inverse" -> MaxXp - x
      [] rule = "alternate" -> i % (MaxCap + 1)

Reverse(s) == [i \in 1..Len(s) |-> s[Len(s) + 1 - i]]

\* the list GK block, DEF block, MID block, FWD block (or its reverse), with
\* ids the places in the list
BlockSquad(n, k, rule, reversed) ==
    LET poss == [i \in 1..(n[PosGK] + n[PosDEF] + n[PosMID] + n[PosFWD]) |->
                    IF i <= n[PosGK] THEN PosGK
                    ELSE IF i <= n[PosGK] + n[PosDEF] THEN PosDEF
                    ELSE IF i <= n[PosGK] + n[PosDEF] + n[PosMID] THEN PosMID ELSE PosFWD]
        xps == BlockXp(n[PosGK], k[PosGK]) \o BlockXp(n[PosDEF], k[PosDEF])
                 \o BlockXp(n[PosMID], k[PosMID]) \o BlockXp(n[PosFWD], k[PosFWD])
        s == [i \in 1..Len(xps) |-> Player(i, poss[i], xps[i], CapOf(rule, i, xps[i]))]
        r == Reverse(s)
    IN  IF reversed THEN [i \in 1..Len(r) |-> [r[i] EXCEPT !.id = i]] ELSE s

\* a legal squad: 2 GK, 5 DEF, 5 MID, 3 FWD
Legal == [p \in Positions |->
            CASE p = PosGK -> 2 [] p = PosDEF -> 5 [] p = PosMID -> 5 [] p = PosFWD -> 3]

IsLegal(squad) == \A p \in Positions : CountPos(squad, p) = Legal[p]

\* a legal squad, or one with up to Extra players too many
Compositions ==
    {n \in [Positions -> 0..(5 + Extra)] :
        /\ \A p \in Positions : n[p] >= Legal[p]
        /\ (n[PosGK] - 2) + (n[PosDEF] - 5) + (n[PosMID] - 5) + (n[PosFWD] - 3) <= Extra}

Splits(n) == {k \in [Positions -> 0..(5 + Extra)] : \A p \in Positions : k[p] <= n[p]}

\* the squad of src/tests/test_tool.py 135-175: all xp values of a position
\* differ
TestSquad ==
    [i \in 1..15 |->
        IF i <= 2 THEN Player(i, PosGK, 5 - i, 5 - i)
        ELSE IF i <= 7 THEN Player(i, PosDEF, 3 + (i - 3), 3 + (i - 3))
        ELSE IF i <= 12 THEN Player(i, PosMID, 4 + (i - 8), 5 + (i - 8))
        ELSE Player(i, PosFWD, 5 + (i - 13), 6 + (i - 13))]

\* squads in which no two players share an xp and no two a cap_score: the
\* i-th player of the block list has xp i * a and cap_score i * b, taken
\* modulo a prime larger than any squad
Spread(i, a) == (i * a) % 19
XpSteps == {1, 7, 11}
CapSteps == {1, 5, 18}

PositionAt(n, i) ==
    IF i <= n[PosGK] THEN PosGK
    ELSE IF i <= n[PosGK] + n[PosDEF] THEN PosDEF
    ELSE IF i <= n[PosGK] + n[PosDEF] + n[PosMID] THEN PosMID ELSE PosFWD

DistinctSquad(n, a, b, reversed) ==
    LET s == [i \in 1..(n[PosGK] + n[PosDEF] + n[PosMID] + n[PosFWD]) |->
                 Player(i, PositionAt(n, i), Spread(i, a), Spread(i, b))]
    IN  IF reversed THEN Reverse(s) ELSE s

\* the squads the model starts from
IsInitialSquad(squad) ==
    \/ squad \in SmallSquads
    \/ \E n \in Compositions : \E k \in Splits(n) : \E rule \in CapRules :
         \E reversed \in BOOLEAN : squad = BlockSquad(n, k, rule, reversed)
    \/ squad = TestSquad
    \/ \E n \in Compositions : \E a \in XpSteps : \E b \in CapSteps :
         \E reversed \in BOOLEAN : squad = DistinctSquad(n, a, b, reversed)

LineupIdle ==
    /\ squad_xp = <<>>
    /\ squad_in = <<>>
    /\ starters = <<>>
    /\ bench = <<>>
    /\ captain = None
    /\ vice_captain = None
    /\ prev = [starters |-> <<>>, bench |-> <<>>, captain |-> None, vice_captain |-> None]
    /\ calls = 0

DataIdle == teams = <<>> /\ custom_fdr = <<>>

NoCall == [fixture |-> [team_h |-> 0, team_a |-> 0], team_id |-> 0]
NoResult == [err |-> "none", val |-> 0]
FdrIdle == fdr_call = NoCall /\ fdr_result = NoResult

MultIdle == mult_seen = <<>>

NoPlayer == [team |-> 0, position |-> 0, chance_of_playing |-> <<>>, penalties_order |-> 0,
             direct_freekicks_order |-> 0, corners_and_indirect_freekicks_order |-> 0]
NoOutput == [total_xp |-> [n |-> 0, d |-> 1], gw_points |-> <<>>, breakdowns |-> <<>>]
XpIdle ==
    /\ player = NoPlayer
    /\ history = <<>>
    /\ fixtures = <<>>
    /\ fixtures_in = <<>>
    /\ xp_pc = "idle"
    /\ xp_out = NoOutput


FormIdle == form_out = <<>>

NoCapCall == [position |-> 0, selected_by_percent |-> <<>>, next_gw_xp |-> [n |-> 0, d |-> 1]]
CapIdle == cap_call = NoCapCall /\ cap_out = <<>>

NoFetch ==
    [role_id |-> 0, max_budget |-> [n |-> 0, d |-> 1], include_ids |-> {}, made |-> FALSE]
FetchIdle == fetch_call = NoFetch /\ fetch_out = <<>>

NoBootstrap == [events |-> <<>>, elements |-> <<>>, teams |-> <<>>]
UpstreamIdle == bootstrap = NoBootstrap /\ picks = <<>> /\ summaries = <<>>
CachesEmpty == bootstrap_static_cache = NoBootstrap /\ player_summary_cache = <<>>
BacktestIdle == UpstreamIdle /\ CachesEmpty /\ perf_out = <<>>

Init ==
    /\ IsInitialSquad(squad_xp)
    /\ squad_in = squad_xp
    /\ starters = <<>>
    /\ bench = <<>>
    /\ captain = None
    /\ vice_captain = None
    /\ prev = [starters |-> <<>>, bench |-> <<>>, captain |-> None, vice_captain |-> None]
    /\ calls = 0
    /\ DataIdle /\ FdrIdle /\ MultIdle /\ XpIdle
    /\ FormIdle /\ CapIdle /\ FetchIdle /\ BacktestIdle

Optimize ==
    /\ calls < MaxCalls
    /\ \E r \in {OptimizeLineup(squad_xp)} :
         /\ squad_xp' = r.squad_xp
         /\ starters' = r.starters
         /\ bench' = r.bench
         /\ captain' = r.captain
         /\ vice_captain' = r.vice_captain
    /\ prev' = [starters |-> starters, bench |-> bench, captain |-> captain,
                vice_captain |-> vice_captain]
    /\ calls' = calls + 1
    /\ UNCHANGED <<squad_in, dataVars, fdrVars, mult_seen, xpVars, formVars, capVars, fetchVars,
                   backtestVars>>

Next == Optimize

Spec == Init /\ [][Next]_vars

----------------------------------------------------------------------------
(* Exact numbers: a float of the program is a fraction n/d in lowest terms *)
(* with d > 0.  The operations are functions of their operands' values.    *)

Rat == [n : Int, d : Nat \ {0}]

Gcd[a \in Nat, b \in Nat] == IF b = 0 THEN a ELSE Gcd[b, a % b]

Abs(x) == IF x < 0 THEN -x ELSE x

\* n/d in lowest terms, for d > 0
Frac[n \in Int, d \in Nat \ {0}] ==
    LET g == Gcd[Abs(n), d]
    IN  [n |-> n \div g, d |-> d \div g]

Whole(k) == [n |-> k, d |-> 1]

RAdd[x \in Rat, y \in Rat] ==
    LET g == Gcd[x.d, y.d]
    IN  Frac[x.n * (y.d \div g) + y.n * (x.d \div g), (x.d \div g) * y.d]

RMul[x \in Rat, y \in Rat] ==
    LET g1 == Gcd[Abs(x.n), y.d]
        g2 == Gcd[Abs(y.n), x.d]
    IN  IF x.n = 0 \/ y.n = 0 THEN Whole(0)
        ELSE [n |-> (x.n \div g1) * (y.n \div g2), d |-> (x.d \div g2) * (y.d \div g1)]

\* x / y for a positive y
RDiv[x \in Rat, y \in Rat] == RMul[x, [n |-> y.d, d |-> y.n]]

RLess[x \in Rat, y \in Rat] == x.n * y.d < y.n * x.d
RLeq[x \in Rat, y \in Rat] == x.n * y.d <= y.n * x.d
RMax[x \in Rat, y \in Rat] == IF RLess[x, y] THEN y ELSE x
RMin[x \in Rat, y \in Rat] == IF RLess[y, x] THEN y ELSE x

RSum[s \in Seq(Rat)] == IF s = <<>> THEN Whole(0) ELSE RAdd[s[1], RSum[Tail(s)]]

\* round(x, places): the nearest multiple of 10^-places, a tie going to the
\* even one; x is not negative.  q is the part of x already written out, r/d
\* the part still to come.
RoundDigits[q \in Nat, r \in Nat, d \in Nat, places \in Nat] ==
    IF places = 0
    THEN IF 2 * r > d \/ (2 * r = d /\ q % 2 = 1) THEN q + 1 ELSE q
    ELSE RoundDigits[10 * q + ((10 * r) \div d), (10 * r) % d, d, places - 1]

Pow10[k \in Nat] == IF k = 0 THEN 1 ELSE 10 * Pow10[k - 1]

Round[x \in Rat, places \in Nat] ==
    Frac[RoundDigits[x.n \div x.d, x.n % x.d, x.d, places], Pow10[places]]

----------------------------------------------------------------------------
(* Teams and the custom FDR table.                                         *)

TeamIds == {1, 2, 3}
TeamName(id) == CASE id = 1 -> "Arsenal" [] id = 2 -> "Chelsea" [] id = 3 -> "Everton"

\* get_processed_teams, an entry of the index
Team(id, sd, sa) == [name |-> TeamName(id), strength_d |-> sd, strength_a |-> sa]

\* the table as src/gui.py 1655-1665 writes it: H and A are integers, and
\* nothing keeps a typed value inside 1..5
OverrideValues == 0..MaxOverride
OverrideEntries == [H : OverrideValues, A : OverrideValues]

----------------------------------------------------------------------------
(* get_fixture_difficulty, src/tool.py 346-400.  The result is             *)
(* [err, val]: err is "KeyError" when teams[opponent_id] fails.            *)

Returned(v) == [err |-> "none", val |-> v]
Raised(e) == [err |-> e, val |-> 0]

\* lines 348-353
FdrIsHome(fixture, team_id) == fixture.team_h = team_id
FdrOpponentId(fixture, team_id) ==
    IF FdrIsHome(fixture, team_id) THEN fixture.team_a ELSE fixture.team_h

\* lines 359-371 with the entry of the asking side read instead
CustomValOwnVenue(custom, opponent_name, is_home) ==
    IF is_home THEN custom[opponent_name].H ELSE custom[opponent_name].A

\* lines 359-371: the opponent is away when we are home
CustomVal(custom, opponent_name, is_home) ==
    IF is_home THEN custom[opponent_name].A ELSE custom[opponent_name].H

\* lines 382-400 with the scale starting at 1
StrengthDifficultyFromOne(opponent) ==
    LET twice == opponent.strength_d + opponent.strength_a
    IN  IF twice < 2 * 1050 THEN 1
        ELSE IF twice < 2 * 1150 THEN 2
        ELSE IF twice < 2 * 1250 THEN 3
        ELSE 4

\* lines 382-400: the mean of the two ratings, compared as its double
StrengthDifficulty(opponent) ==
    LET twice == opponent.strength_d + opponent.strength_a
    IN  IF twice < 2 * 1050 THEN 2
        ELSE IF twice < 2 * 1150 THEN 3
        ELSE IF twice < 2 * 1250 THEN 4
        ELSE 5

GetFixtureDifficulty(custom, fixture, team_id, tms) ==
    LET is_home == FdrIsHome(fixture, team_id)
        opponent_id == FdrOpponentId(fixture, team_id)
    IN  IF opponent_id \notin DOMAIN tms THEN Raised("KeyError")
        ELSE LET opponent == tms[opponent_id]
             IN  IF custom # <<>> /\ opponent.name \in DOMAIN custom
                 THEN Returned(CustomVal(custom, opponent.name, is_home))
                 ELSE Returned(StrengthDifficulty(opponent))

----------------------------------------------------------------------------
(* _calculate_fixture_multiplier, src/tool.py 402-404, with the            *)
(* model_config of lines 31-38.                                            *)

\* "fixture_diff_factor": 0.05
FixtureDiffFactor == Frac[5, 100]

\* the sign of the difference turned round
FixtureMultiplierInverted(difficulty) ==
    RAdd[Whole(1), RMul[Whole(difficulty - 3), FixtureDiffFactor]]

CalculateFixtureMultiplier(difficulty) ==
    RAdd[Whole(1), RMul[Whole(3 - difficulty), FixtureDiffFactor]]

----------------------------------------------------------------------------
(* The resolver called on its own: any fixture between teams 1 and 2, any  *)
(* asking team, any table over the two names.                              *)

StrengthPairs ==
    {<<1000, 1000>>, <<1049, 1050>>, <<1050, 1050>>, <<1149, 1150>>, <<1000, 1300>>,
     <<1249, 1250>>, <<1250, 1250>>}

FdrTeamIndexes ==
    {[id \in {1, 2} |-> Team(id, s[id][1], s[id][2])] : s \in [{1, 2} -> StrengthPairs]}

\* every table over the names of teams 1 and 2, the empty one included
FdrTables ==
    UNION {[names -> OverrideEntries] : names \in SUBSET {TeamName(1), TeamName(2)}}

FdrFixtures == {[team_h |-> 1, team_a |-> 2], [team_h |-> 2, team_a |-> 1]}

InitFdr ==
    /\ teams \in FdrTeamIndexes
    /\ custom_fdr \in FdrTables
    /\ LineupIdle /\ FdrIdle /\ MultIdle /\ XpIdle
    /\ FormIdle /\ CapIdle /\ FetchIdle /\ BacktestIdle

CallGetFixtureDifficulty ==
    /\ fdr_call = NoCall
    /\ \E fixture \in FdrFixtures : \E team_id \in TeamIds :
         /\ fdr_call' = [fixture |-> fixture, team_id |-> team_id]
         /\ fdr_result' = GetFixtureDifficulty(custom_fdr, fixture, team_id, teams)
    /\ UNCHANGED <<lineupVars, dataVars, mult_seen, xpVars, formVars, capVars, fetchVars,
                   backtestVars>>

NextFdr == CallGetFixtureDifficulty

SpecFdr == InitFdr /\ [][NextFdr]_vars

----------------------------------------------------------------------------
(* The multiplier called for one difficulty after another.  A difficulty   *)
(* is whatever get_fixture_difficulty returned: 2..5 from the ratings, or  *)
(* an override value.                                                      *)

InitMult ==
    /\ LineupIdle /\ DataIdle /\ FdrIdle /\ MultIdle /\ XpIdle
    /\ FormIdle /\ CapIdle /\ FetchIdle /\ BacktestIdle

CallFixtureMultiplier ==
    /\ \E d \in OverrideValues \ DOMAIN mult_seen :
         mult_seen' = [x \in DOMAIN mult_seen \cup {d} |->
                         IF x = d THEN CalculateFixtureMultiplier(d) ELSE mult_seen[x]]
    /\ UNCHANGED <<lineupVars, dataVars, fdrVars, xpVars, formVars, capVars, fetchVars,
                   backtestVars>>

NextMult == CallFixtureMultiplier

SpecMult == InitMult /\ [][NextMult]_vars

----------------------------------------------------------------------------
(* The weighted averages, src/tool.py 446-492.                             *)

\* model_config["form_weights"], most recent game first
FormWeights == <<Frac[10, 10], Frac[9, 10], Frac[8, 10], Frac[7, 10], Frac[6, 10]>>

\* history[-5:]
Recent(hist) == IF Len(hist) <= 5 THEN hist ELSE Drop(hist, Len(hist) - 5)

\* reversed(recent), cut to the games that have a weight
Weighted(hist) ==
    LET recent == Recent(hist)
        k == IF Len(recent) < Len(FormWeights) THEN Len(recent) ELSE Len(FormWeights)
    IN  [i \in 1..k |-> recent[Len(recent) + 1 - i]]

\* line 464 with every weight counted, used or not
TotalWeightsAllFive(hist) == RSum[FormWeights]

\* line 464: the weights of the games gone through
TotalWeights(hist) == RSum[[i \in 1..Len(Weighted(hist)) |-> FormWeights[i]]]

CalculateWeightedForm(hist) ==
    IF hist = <<>> THEN Whole(0)
    ELSE LET games == Weighted(hist)
             total_weighted_pts ==
                 RSum[[i \in 1..Len(games) |->
                         RMul[Whole(games[i].total_points), FormWeights[i]]]]
             total_weights == TotalWeights(hist)
         IN  IF RLess[Whole(0), total_weights]
             THEN RDiv[total_weighted_pts, total_weights] ELSE Whole(0)

\* the metric of a game is float(game.get(metric_key, 0) or 0): a number
CalculateWeightedMetric(hist, metric_key) ==
    IF hist = <<>> THEN Whole(0)
    ELSE LET games == Weighted(hist)
             total_weighted ==
                 RSum[[i \in 1..Len(games) |-> RMul[games[i][metric_key], FormWeights[i]]]]
             total_weights == TotalWeights(hist)
         IN  IF RLess[Whole(0), total_weights]
             THEN RDiv[total_weighted, total_weights] ELSE Whole(0)

CalculateWeightedMinutes(hist) == CalculateWeightedMetric(hist, "minutes")

----------------------------------------------------------------------------
(* The per-fixture modifiers, src/tool.py 406-444 and 494-517.             *)

BonusMultiplier == Frac[110, 100]
HomeBoost == Frac[105, 100]
AwayPenalty == Frac[95, 100]
CleanSheetBase == Frac[30, 100]

\* lines 414-427 (GK/DEF) and lines 431-444 (MID/FWD) hold the same table
MatchupTable(opponent_difficulty, my_team_difficulty) ==
    IF opponent_difficulty <= 2
    THEN IF my_team_difficulty <= 2 THEN Whole(1) ELSE Frac[11, 10]
    ELSE IF opponent_difficulty >= 4
         THEN IF my_team_difficulty >= 4 THEN Whole(1) ELSE Frac[9, 10]
         ELSE Whole(1)

CalculateMatchupMultiplier(p, opponent_difficulty, my_team_difficulty) ==
    IF p.position \in {PosGK, PosDEF}
    THEN MatchupTable(opponent_difficulty, my_team_difficulty)
    ELSE MatchupTable(opponent_difficulty, my_team_difficulty)

\* lines 499-506 without the clamp of line 506
CsProbabilityUnclamped(my_team_difficulty, opponent_difficulty) ==
    LET diff == my_team_difficulty - opponent_difficulty
    IN  RAdd[CleanSheetBase, RMul[Whole(diff), Frac[10, 100]]]

\* lines 499-506
CalculateCsProbability(my_team_difficulty, opponent_difficulty) ==
    LET diff == my_team_difficulty - opponent_difficulty
        prob == RAdd[CleanSheetBase, RMul[Whole(diff), Frac[10, 100]]]
    IN  RMax[Frac[5, 100], RMin[Frac[80, 100], prob]]

CalculateSavePoints(my_team_difficulty, opponent_difficulty) ==
    LET diff == opponent_difficulty - my_team_difficulty
    IN  IF diff >= 2 THEN Whole(1)
        ELSE IF diff > 0 THEN Frac[1, 2]
        ELSE Frac[2, 10]

----------------------------------------------------------------------------
(* calculate_xp, src/tool.py 519-724, in threat-model mode                 *)
(* (USE_THREAT_MODEL = True, line 10).                                     *)

NEXT_N_GW == 5

\* an optional value: <<>> when absent (None, NaN, a missing key), <<v>> else
Absent == <<>>
Some(v) == <<v>>

\* lines 529-534
ExpectedAppPoints(expected_minutes) ==
    IF RLeq[Whole(60), expected_minutes] THEN Whole(2)
    ELSE IF RLess[Whole(0), expected_minutes] THEN Whole(1)
    ELSE Whole(0)

\* lines 543-549
PtsPerGoal(pos) == IF pos = PosGK \/ pos = PosDEF THEN 6 ELSE IF pos = PosMID THEN 5 ELSE 4

\* lines 539-557
BaseAttackPotential(p, hist) ==
    LET weighted_xg == CalculateWeightedMetric(hist, "expected_goals")
        weighted_xa == CalculateWeightedMetric(hist, "expected_assists")
        xp_goals == RMul[weighted_xg, Whole(PtsPerGoal(p.position))]
        xp_assists == RMul[weighted_xa, Whole(3)]
    IN  RMul[RAdd[xp_goals, xp_assists], BonusMultiplier]

\* lines 572-573
XpOpponentId(f) == IF f.is_home THEN f.team_a ELSE f.team_h

\* lines 634-660: [cs_pts, save_pts, att_pts, performance_xp] of the position
Performance(p, cs_prob, base_attack_potential, matchup_mult, save_pts) ==
    LET cs4 == RMul[cs_prob, Whole(4)]
        att(share) == RMul[RMul[base_attack_potential, share], matchup_mult]
    IN  CASE p.position = PosGK ->
               [cs_pts |-> cs4, save_pts |-> save_pts, att_pts |-> Whole(0),
                performance_xp |-> RAdd[cs4, save_pts]]
          [] p.position = PosDEF ->
               [cs_pts |-> cs4, save_pts |-> Whole(0), att_pts |-> att(Frac[1, 10]),
                performance_xp |-> RAdd[cs4, att(Frac[1, 10])]]
          [] p.position = PosMID ->
               [cs_pts |-> cs_prob, save_pts |-> Whole(0), att_pts |-> att(Frac[8, 10]),
                performance_xp |-> RAdd[cs_prob, att(Frac[8, 10])]]
          [] p.position = PosFWD ->
               [cs_pts |-> Whole(0), save_pts |-> Whole(0), att_pts |-> att(Whole(1)),
                performance_xp |-> att(Whole(1))]
          [] OTHER ->
               [cs_pts |-> Whole(0), save_pts |-> Whole(0), att_pts |-> Whole(0),
                performance_xp |-> Whole(0)]

\* lines 688-690
PenBonus(p) == IF p.penalties_order = 1 THEN Some(Frac[115, 100]) ELSE Absent

\* lines 692-697 with the bonus taken once for each of the two orders
SetPieceBonusTwice(p) ==
    IF p.direct_freekicks_order = 1 /\ p.corners_and_indirect_freekicks_order = 1
    THEN Some(RMul[Frac[105, 100], Frac[105, 100]])
    ELSE IF p.direct_freekicks_order = 1 \/ p.corners_and_indirect_freekicks_order = 1
    THEN Some(Frac[105, 100]) ELSE Absent

\* lines 692-697
SetPieceBonus(p) ==
    IF p.direct_freekicks_order = 1 \/ p.corners_and_indirect_freekicks_order = 1
    THEN Some(Frac[105, 100]) ELSE Absent
Scaled(x, bonus) == IF bonus = Absent THEN x ELSE RMul[x, bonus[1]]

\* lines 700-703: pd.isna(chance) gives 100
Chance(p) == IF p.chance_of_playing = Absent THEN 100 ELSE p.chance_of_playing[1]

\* lines 579-709 with the legacy branch of lines 666-684 taken instead of
\* the threat branch: no appearance points, everything scaled
FixtureXpLegacy(p, hist, f, opponent, difficulty, my_team_difficulty) ==
    LET expected_minutes == CalculateWeightedMinutes(hist)
        base_attack_potential == BaseAttackPotential(p, hist)
        fixture_mult == CalculateFixtureMultiplier(difficulty)
        matchup_mult == CalculateMatchupMultiplier(p, difficulty, my_team_difficulty)
        venue_mult == IF f.is_home THEN HomeBoost ELSE AwayPenalty
        cs_clamped == CalculateCsProbability(my_team_difficulty, difficulty)
        cs_prob == IF f.is_home THEN RAdd[cs_clamped, Frac[5, 100]] ELSE cs_clamped
        perf == Performance(p, cs_prob, base_attack_potential, matchup_mult,
                            CalculateSavePoints(my_team_difficulty, difficulty))
        step_xp == RMul[perf.performance_xp, RMul[fixture_mult, venue_mult]]
        gw_xp == Scaled(Scaled(step_xp, PenBonus(p)), SetPieceBonus(p))
        final_gw_xp == RMul[gw_xp, Frac[Chance(p), 100]]
    IN  [final_gw_xp |-> final_gw_xp,
         breakdown |->
           [opponent |-> opponent.name,
            is_home |-> f.is_home,
            difficulty |-> difficulty,
            base_attack |-> Round[base_attack_potential, 2],
            fixture_mult |-> Round[fixture_mult, 2],
            matchup_mult |-> Round[matchup_mult, 2],
            venue_mult |-> Round[venue_mult, 2],
            cs_prob |-> Round[cs_prob, 2],
            expected_mins |-> Round[expected_minutes, 1],
            app_points |-> Whole(0),
            save_points |-> Whole(0),
            clean_sheet_points |-> Whole(0),
            attack_points |-> Whole(0),
            pen_bonus |-> PenBonus(p),
            set_piece_bonus |-> SetPieceBonus(p),
            chance_of_playing |-> Chance(p),
            final_xp |-> Round[final_gw_xp, 2]]]

\* lines 579-709 for a fixture whose two difficulties have been resolved:
\* the breakdown and the fixture's xP
FixtureXp(p, hist, f, opponent, difficulty, my_team_difficulty) ==
    LET expected_minutes == CalculateWeightedMinutes(hist)
        expected_app_points == ExpectedAppPoints(expected_minutes)
        base_attack_potential == BaseAttackPotential(p, hist)
        fixture_mult == CalculateFixtureMultiplier(difficulty)
        matchup_mult == CalculateMatchupMultiplier(p, difficulty, my_team_difficulty)
        venue_mult == IF f.is_home THEN HomeBoost ELSE AwayPenalty
        cs_clamped == CalculateCsProbability(my_team_difficulty, difficulty)
        cs_prob == IF f.is_home THEN RAdd[cs_clamped, Frac[5, 100]] ELSE cs_clamped
        perf == Performance(p, cs_prob, base_attack_potential, matchup_mult,
                            CalculateSavePoints(my_team_difficulty, difficulty))
        performance_xp == RMul[perf.performance_xp, RMul[fixture_mult, venue_mult]]
        gw_xp == Scaled(Scaled(RAdd[expected_app_points, performance_xp], PenBonus(p)),
                        SetPieceBonus(p))
        prob == Frac[Chance(p), 100]
        final_gw_xp == RMul[gw_xp, prob]
    IN  [final_gw_xp |-> final_gw_xp,
         breakdown |->
           [opponent |-> opponent.name,
            is_home |-> f.is_home,
            difficulty |-> difficulty,
            base_attack |-> Round[base_attack_potential, 2],
            fixture_mult |-> Round[fixture_mult, 2],
            matchup_mult |-> Round[matchup_mult, 2],
            venue_mult |-> Round[venue_mult, 2],
            cs_prob |-> Round[cs_prob, 2],
            expected_mins |-> Round[expected_minutes, 1],
            app_points |-> expected_app_points,
            save_points |-> Round[perf.save_pts, 2],
            clean_sheet_points |-> Round[perf.cs_pts, 2],
            attack_points |-> Round[perf.att_pts, 2],
            pen_bonus |-> PenBonus(p),
            set_piece_bonus |-> SetPieceBonus(p),
            chance_of_playing |-> Chance(p),
            final_xp |-> Round[final_gw_xp, 2]]]

\* a dict with key k set to v
Put(map, k, v) == [x \in DOMAIN map \cup {k} |-> IF x = k THEN v ELSE map[x]]

\* the state of the loop of lines 571-722: the running total, the two maps,
\* the fixture records gone through so far (enriched or not) and the error
\* raised, if any
LoopStart ==
    [total_xp |-> Whole(0), gw_points |-> <<>>, breakdowns |-> <<>>, done |-> <<>>,
     err |-> "none"]

\* lines 707-722: the fixture's xP goes into the total, into the two maps
\* (keyed by the gameweek number n of the key "GWn"; event 0 stands for no
\* event) and onto the fixture record
Accumulate(acc, f, opponent, r) ==
    [total_xp |-> RAdd[acc.total_xp, r.final_gw_xp],
     gw_points |->
       IF f.event # 0 THEN Put(acc.gw_points, f.event, Round[r.final_gw_xp, 2])
       ELSE acc.gw_points,
     breakdowns |->
       IF f.event # 0 THEN Put(acc.breakdowns, f.event, r.breakdown) ELSE acc.breakdowns,
     done |-> Append(acc.done,
                     [f EXCEPT !.opponent = opponent.name, !.xp = Some(r.final_gw_xp)]),
     err |-> "none"]

\* one pass of the loop body, lines 572-722; after an error no pass is made
XpStep(acc, f, p, hist, tms, custom) ==
    LET opponent_id == XpOpponentId(f)
    IN  IF acc.err # "none" THEN [acc EXCEPT !.done = Append(@, f)]
        ELSE IF opponent_id \notin DOMAIN tms THEN [acc EXCEPT !.done = Append(@, f)]
        ELSE LET opponent == tms[opponent_id]
                 difficulty == GetFixtureDifficulty(custom, f, p.team, tms)
                 my_team_difficulty == GetFixtureDifficulty(custom, f, opponent_id, tms)
             IN  IF difficulty.err # "none"
                 THEN [acc EXCEPT !.err = difficulty.err, !.done = Append(@, f)]
                 ELSE IF my_team_difficulty.err # "none"
                 THEN [acc EXCEPT !.err = my_team_difficulty.err, !.done = Append(@, f)]
                 ELSE Accumulate(acc, f, opponent,
                                 FixtureXp(p, hist, f, opponent, difficulty.val,
                                           my_team_difficulty.val))

RECURSIVE XpLoop(_, _, _, _, _, _)
XpLoop(acc, upcoming, p, hist, tms, custom) ==
    IF upcoming = <<>> THEN acc
    ELSE XpLoop(XpStep(acc, Head(upcoming), p, hist, tms, custom), Tail(upcoming),
                p, hist, tms, custom)

\* line 724, or the error: what the call returns or raises, and the fixture
\* list as the loop leaves it
XpResult(acc, fs) ==
    [err |-> acc.err,
     out |-> IF acc.err = "none"
             THEN [total_xp |-> acc.total_xp, gw_points |-> acc.gw_points,
                   breakdowns |-> acc.breakdowns]
             ELSE NoOutput,
     fixtures |-> acc.done \o Drop(fs, NEXT_N_GW)]

CalculateXpOf(p, tms, custom, fs, hist) ==
    XpResult(XpLoop(LoopStart, Take(fs, NEXT_N_GW), p, hist, tms, custom), fs)

----------------------------------------------------------------------------
(* The engine called once on a player of team 1.  Three families of       *)
(* inputs: every player record against plain fixtures; a plain player      *)
(* record of each position with every history, every team index and table  *)
(* against the plain and the long fixture lists; and such a record with a  *)
(* steady history against every fixture list and team index.               *)

\* history records: an unused substitute, a late substitute, a starter
Bench ==
    [total_points |-> 0, minutes |-> Whole(0), expected_goals |-> Whole(0),
     expected_assists |-> Whole(0)]
Sub ==
    [total_points |-> 1, minutes |-> Whole(30), expected_goals |-> Whole(0),
     expected_assists |-> Frac[1, 5]]
Starter ==
    [total_points |-> 6, minutes |-> Whole(90), expected_goals |-> Frac[1, 2],
     expected_assists |-> Frac[1, 5]]

Histories == SeqsUpTo({Bench, Sub, Starter}, MaxHist)
SteadyHistories == SeqsUpTo({Starter}, MaxHist) \cup {<<Sub>>, <<Bench>>}

\* chance_of_playing: NaN or a percentage
ChanceValues == {Absent, Some(0), Some(75), Some(100)}
\* the set-piece orders: 0 stands for None, 1 for the first taker
OrderValues == 0..MaxOrder

XpPlayer(pos, chance, pen, dfk, corners) ==
    [team |-> 1, position |-> pos, chance_of_playing |-> chance, penalties_order |-> pen,
     direct_freekicks_order |-> dfk, corners_and_indirect_freekicks_order |-> corners]

Players ==
    {XpPlayer(pos, chance, pen, dfk, corners) :
        pos \in Positions, chance \in ChanceValues,
        pen \in OrderValues, dfk \in OrderValues, corners \in OrderValues}
PlainPlayers == {XpPlayer(pos, Absent, 0, 0, 0) : pos \in Positions}

\* a fixture of team 1 as the player summary gives it, not yet enriched
XpFixture(is_home, opp, event) ==
    [team_h |-> IF is_home THEN 1 ELSE opp, team_a |-> IF is_home THEN opp ELSE 1,
     is_home |-> is_home, event |-> event, opponent |-> "", xp |-> Absent]

\* the i-th fixture is in gameweek i, or shares the gameweek of the one
\* before it; a first fixture may have no gameweek
FixturesAt(i) == {XpFixture(h, opp, e) : h \in BOOLEAN, opp \in {2, 3}, e \in {i - 1, i}}

RECURSIVE FixtureLists(_)
FixtureLists(n) ==
    IF n = 0 THEN {<<>>}
    ELSE {Append(s, f) : s \in FixtureLists(n - 1), f \in FixturesAt(n)}

\* more fixtures than calculate_xp looks at
LongFixtures == [i \in 1..(NEXT_N_GW + 1) |-> XpFixture(i % 2 = 1, 2, i)]

XpFixtureLists == UNION {FixtureLists(n) : n \in 0..MaxFixtures} \cup {LongFixtures}
PlainFixtureLists ==
    {<<XpFixture(TRUE, 2, 1)>>, <<XpFixture(FALSE, 2, 1)>>,
     <<XpFixture(TRUE, 2, 1), XpFixture(FALSE, 3, 2)>>}

\* team 2 is always indexed; team 1 (the player's) and team 3 may be missing
Weak == <<1000, 1000>>
Middling == <<1100, 1100>>
Strong == <<1300, 1300>>
XpTeamIndexes ==
    {[id \in ids |-> Team(id, s[id][1], s[id][2])] :
        ids \in {{2}, {1, 2}, {2, 3}, {1, 2, 3}},
        s \in {[id \in TeamIds |-> IF id = 2 THEN Weak ELSE Strong],
               [id \in TeamIds |-> IF id = 2 THEN Strong ELSE Weak]}}
PlainTeamIndex == [id \in TeamIds |-> Team(id, Middling[1], Middling[2])]

XpTables ==
    {<<>>,
     [name \in {TeamName(1), TeamName(2)} |->
        IF name = TeamName(1) THEN [H |-> 4, A |-> 3] ELSE [H |-> 1, A |-> 2]]}

InitXp ==
    /\ \/ /\ player \in Players
          /\ history \in SteadyHistories
          /\ fixtures \in PlainFixtureLists
          /\ teams = PlainTeamIndex
          /\ custom_fdr = <<>>
       \/ /\ player \in PlainPlayers
          /\ teams \in XpTeamIndexes
          /\ \/ /\ history \in Histories
                /\ fixtures \in PlainFixtureLists \cup {LongFixtures}
                /\ custom_fdr \in XpTables
             \/ /\ history \in SteadyHistories
                /\ fixtures \in XpFixtureLists
                /\ custom_fdr = <<>>
    /\ fixtures_in = fixtures
    /\ xp_pc = "ready"
    /\ xp_out = NoOutput
    /\ LineupIdle /\ FdrIdle /\ MultIdle
    /\ FormIdle /\ CapIdle /\ FetchIdle /\ BacktestIdle

CalculateXp ==
    /\ xp_pc = "ready"
    /\ \E r \in {CalculateXpOf(player, teams, custom_fdr, fixtures, history)} :
         /\ xp_pc' = IF r.err = "none" THEN "returned" ELSE "raised"
         /\ xp_out' = r.out
         /\ fixtures' = r.fixtures
    /\ UNCHANGED <<player, history, fixtures_in, lineupVars, dataVars, fdrVars, mult_seen,
                   formVars, capVars, fetchVars, backtestVars>>

NextXp == CalculateXp

SpecXp == InitXp /\ [][NextXp]_vars

----------------------------------------------------------------------------
(* _calculate_weighted_form called on its own, on histories shorter and    *)
(* longer than the five games that carry a weight.                         *)

\* a game with the given total_points
Game(points) ==
    [total_points |-> points, minutes |-> Whole(90), expected_goals |-> Whole(0),
     expected_assists |-> Whole(0)]

FormHistories == SeqsUpTo({Game(pts) : pts \in 0..MaxPoints}, MaxFormHist)

InitForm ==
    /\ history \in FormHistories
    /\ form_out = Absent
    /\ player = NoPlayer /\ fixtures = <<>> /\ fixtures_in = <<>>
    /\ xp_pc = "idle" /\ xp_out = NoOutput
    /\ LineupIdle /\ DataIdle /\ FdrIdle /\ MultIdle /\ CapIdle /\ FetchIdle /\ BacktestIdle

CallWeightedForm ==
    /\ form_out = Absent
    /\ form_out' = Some(CalculateWeightedForm(history))
    /\ UNCHANGED <<lineupVars, dataVars, fdrVars, mult_seen, xpVars, capVars, fetchVars,
                   backtestVars>>

NextForm == CallWeightedForm

SpecForm == InitForm /\ [][NextForm]_vars

----------------------------------------------------------------------------
(* _calculate_cap_score, src/tool.py 726-748, called once.  The player     *)
(* record carries the two columns the function reads; selected_by_percent  *)
(* is a number or NaN (Absent), and a comparison with NaN is false.        *)

\* lines 730-731
PositionBias(cap_score, position) ==
    IF position \in {PosMID, PosFWD} THEN RMul[cap_score, Frac[11, 10]] ELSE cap_score

\* lines 734-735
Ownership(cap_score, selected) ==
    IF selected # Absent /\ RLess[Whole(30), selected[1]]
    THEN RMul[cap_score, Frac[105, 100]] ELSE cap_score

\* the minutes of the whole history
RecentMinutesAll(hist) == [i \in 1..Len(hist) |-> hist[i].minutes]

\* lines 738-742
RecentMinutes(hist) ==
    IF Len(hist) >= 3
    THEN [i \in 1..3 |-> hist[Len(hist) - 3 + i].minutes]
    ELSE [i \in 1..Len(hist) |-> hist[i].minutes]

\* line 743
AvgMinutes(recent_minutes) ==
    IF recent_minutes # <<>>
    THEN RDiv[RSum[recent_minutes], Whole(Len(recent_minutes))] ELSE Whole(0)

\* lines 745-746
MinutesSecurity(cap_score, avg_minutes) ==
    IF RLess[avg_minutes, Whole(60)] THEN RMul[cap_score, Frac[1, 2]] ELSE cap_score

CalculateCapScore(p, next_gw_xp, hist) ==
    MinutesSecurity(Ownership(PositionBias(next_gw_xp, p.position), p.selected_by_percent),
                    AvgMinutes(RecentMinutes(hist)))

\* a history record with the given minutes
MinutesGame(minutes) ==
    [total_points |-> 0, minutes |-> Whole(minutes), expected_goals |-> Whole(0),
     expected_assists |-> Whole(0)]

CapHistories == SeqsUpTo({MinutesGame(m) : m \in {0, 59, 60, 90}}, MaxCapHist)
SelectedValues == {Absent, Some(Whole(0)), Some(Whole(30)), Some(Frac[301, 10]), Some(Whole(50))}
NextGwXpValues == {Whole(0), Frac[168, 100], Whole(6)}

InitCap ==
    /\ cap_call \in [position : Positions, selected_by_percent : SelectedValues,
                     next_gw_xp : NextGwXpValues]
    /\ history \in CapHistories
    /\ cap_out = Absent
    /\ player = NoPlayer /\ fixtures = <<>> /\ fixtures_in = <<>>
    /\ xp_pc = "idle" /\ xp_out = NoOutput
    /\ LineupIdle /\ DataIdle /\ FdrIdle /\ MultIdle /\ FormIdle /\ FetchIdle /\ BacktestIdle

CallCapScore ==
    /\ cap_out = Absent
    /\ cap_out' = Some(CalculateCapScore(cap_call, cap_call.next_gw_xp, history))
    /\ UNCHANGED <<lineupVars, dataVars, fdrVars, mult_seen, xpVars, formVars, cap_call,
                   fetchVars, backtestVars>>

NextCap == CallCapScore

SpecCap == InitCap /\ [][NextCap]_vars

----------------------------------------------------------------------------
(* The bootstrap data and fetch_and_filter_data, src/tool.py 69-218.  A    *)
(* bootstrap element carries the columns the filter and the engine read;   *)
(* web_name, form, points_per_game and selected_by_percent are passed      *)
(* through by the code and left out here.  None is 0 for role_id and for   *)
(* the set-piece orders, and the empty set for include_ids.                *)

\* lines 69-86: the cached payload while it is there and fresh, else the
\* payload fetched, which becomes the cache
GetBootstrapStatic(cache, upstream, fresh) ==
    IF cache # NoBootstrap /\ fresh THEN cache ELSE upstream

\* lines 113-126: t["id"] is never 0, so both ratings are the home ones
GetProcessedTeams(data) ==
    [id \in {data.teams[i].id : i \in 1..Len(data.teams)} |->
        LET t == CHOOSE t \in {data.teams[i] : i \in 1..Len(data.teams)} : t.id = id
        IN  [name |-> t.name,
             strength_d |-> IF t.id # 0 THEN t.strength_defence_home
                            ELSE t.strength_defence_away,
             strength_a |-> IF t.id # 0 THEN t.strength_attack_home
                            ELSE t.strength_attack_away]]

NoRole == 0

\* line 148
MandatoryMask(p, include_ids) == p.id \in include_ids

\* lines 152-155
RoleMask(p, role_id) == role_id = NoRole \/ p.element_type = role_id

\* lines 158-163
StandardMask(p, role_id, max_budget) ==
    /\ RoleMask(p, role_id)
    /\ RLeq[Frac[p.now_cost, 10], max_budget]
    /\ p.status \in {"a", "d"}
    /\ p.minutes > 200

\* line 166 with the two masks joined by "and"
FinalMaskBoth(p, role_id, max_budget, include_ids) ==
    MandatoryMask(p, include_ids) /\ StandardMask(p, role_id, max_budget)

\* line 166
FinalMask(p, role_id, max_budget, include_ids) ==
    MandatoryMask(p, include_ids) \/ StandardMask(p, role_id, max_budget)

\* lines 136-138
TeamsWithP1(data) ==
    {data.elements[i].team : i \in {j \in 1..Len(data.elements) :
                                      data.elements[j].penalties_order = 1}}

\* lines 182-185
AdjustPenalties(row, teams_with_p1) ==
    IF row.penalties_order = 2 /\ row.team \notin teams_with_p1
    THEN 1 ELSE row.penalties_order

\* lines 176-216: a row of the data frame returned
FetchedRow(p, teams_with_p1) ==
    [id |-> p.id,
     team |-> p.team,
     position |-> p.element_type,
     now_cost |-> Frac[p.now_cost, 10],
     chance_of_playing |-> p.chance_of_playing_next_round,
     status |-> p.status,
     penalties_order |-> AdjustPenalties(p, teams_with_p1),
     direct_freekicks_order |-> p.direct_freekicks_order,
     corners_and_indirect_freekicks_order |-> p.corners_and_indirect_freekicks_order]

\* lines 141-218: the rows of the data frame, in the order of the elements
FetchAndFilterData(data, role_id, max_budget, include_ids) ==
    LET keep(p) == FinalMask(p, role_id, max_budget, include_ids)
        filtered == SelectSeq(data.elements, keep)
        teams_with_p1 == TeamsWithP1(data)
    IN  [i \in 1..Len(filtered) |-> FetchedRow(filtered[i], teams_with_p1)]

----------------------------------------------------------------------------
(* fetch_and_filter_data called once on a league of two players of team 1, *)
(* with values on both sides of each threshold.                            *)

RawTeam(id, strength) ==
    [id |-> id, name |-> TeamName(id),
     strength_defence_home |-> strength, strength_defence_away |-> strength - 10,
     strength_attack_home |-> strength, strength_attack_away |-> strength - 10]

Element(id, team, element_type, now_cost, status, minutes, pen) ==
    [id |-> id, team |-> team, element_type |-> element_type, now_cost |-> now_cost,
     chance_of_playing_next_round |-> Absent, status |-> status, minutes |-> minutes,
     penalties_order |-> pen, direct_freekicks_order |-> 0,
     corners_and_indirect_freekicks_order |-> 0]

FetchElements(id, pens) ==
    {Element(id, 1, et, cost, st, mins, pen) :
        et \in {PosGK, PosMID}, cost \in {60, 61}, st \in {"a", "d", "i"},
        mins \in {200, 201}, pen \in pens}

FetchBootstraps ==
    {[events |-> <<>>, elements |-> <<e1, e2>>, teams |-> <<RawTeam(1, 1000)>>] :
        e1 \in FetchElements(1, {1, 2}), e2 \in FetchElements(2, {2})}

\* the ids asked for: the two players and one the league does not have
UnknownId == 9
AskedIds == {1, 2, UnknownId}

Budgets == {Whole(6), Whole(999)}

InitFetch ==
    /\ bootstrap \in FetchBootstraps
    /\ picks = <<>> /\ summaries = <<>>
    /\ CachesEmpty
    /\ perf_out = <<>>
    /\ FetchIdle
    /\ LineupIdle /\ DataIdle /\ FdrIdle /\ MultIdle /\ XpIdle /\ FormIdle /\ CapIdle

CallFetchAndFilterData ==
    /\ ~fetch_call.made
    /\ \E role_id \in {NoRole, PosMID}, max_budget \in Budgets, include_ids \in SUBSET AskedIds,
          fresh \in BOOLEAN :
         \E data \in {GetBootstrapStatic(bootstrap_static_cache, bootstrap, fresh)} :
            /\ bootstrap_static_cache' = data
            /\ fetch_call' = [role_id |-> role_id, max_budget |-> max_budget,
                              include_ids |-> include_ids, made |-> TRUE]
            /\ fetch_out' = FetchAndFilterData(data, role_id, max_budget, include_ids)
    /\ UNCHANGED <<lineupVars, dataVars, fdrVars, mult_seen, xpVars, formVars, capVars, upstreamVars,
                   player_summary_cache, perf_out>>

NextFetch == CallFetchAndFilterData

SpecFetch == InitFetch /\ [][NextFetch]_vars

----------------------------------------------------------------------------
(* get_model_performance, src/tool.py 975-1089, with get_player_summary    *)
(* (250-265) and the event lookups (88-97).  A run is                      *)
(* [err, results, cache]: the list returned (or the error raised) and the  *)
(* player-summary cache as the run leaves it.                              *)

\* team_id None
NoTeam == 0

\* lines 88-97
GetCurrentEventId(data) ==
    LET current == SelectSeq(data.events, LAMBDA ev : ev.is_current)
        next == SelectSeq(data.events, LAMBDA ev : ev.is_next)
    IN  IF current # <<>> THEN current[1].id
        ELSE IF next # <<>> THEN (IF next[1].id - 1 > 1 THEN next[1].id - 1 ELSE 1)
        ELSE 1

\* the latest finished gameweeks left newest first
TargetEventsNewestFirst(data, num_weeks) ==
    LET current_event == GetCurrentEventId(data)
        completed_events ==
            SelectSeq(data.events, LAMBDA ev : ev.finished /\ ev.id < current_event)
    IN  Take(SortDesc(completed_events, "id"), num_weeks)

\* lines 985-996: the num_weeks latest finished gameweeks, oldest first
TargetEvents(data, num_weeks) ==
    LET current_event == GetCurrentEventId(data)
        completed_events ==
            SelectSeq(data.events, LAMBDA ev : ev.finished /\ ev.id < current_event)
    IN  Reverse(Take(SortDesc(completed_events, "id"), num_weeks))

\* a summary that could not be fetched: [], []
NoSummary == [fixtures |-> <<>>, history |-> <<>>]

\* lines 250-265 with a cache entry that keeps the fixtures only
GetPlayerSummaryFixturesOnly(cache, upstream, element_id) ==
    IF element_id \in DOMAIN cache
    THEN [summary |-> cache[element_id], cache |-> cache]
    ELSE IF upstream[element_id].ok
    THEN [summary |-> upstream[element_id].data,
          cache |-> Put(cache, element_id,
                        [upstream[element_id].data EXCEPT !.history = <<>>])]
    ELSE [summary |-> NoSummary, cache |-> cache]

\* lines 250-265: the cached pair if there is one, else the pair fetched,
\* which is cached; a failed fetch gives [], [] and caches nothing
GetPlayerSummary(cache, upstream, element_id) ==
    IF element_id \in DOMAIN cache
    THEN [summary |-> cache[element_id], cache |-> cache]
    ELSE IF upstream[element_id].ok
    THEN [summary |-> upstream[element_id].data,
          cache |-> Put(cache, element_id, upstream[element_id].data)]
    ELSE [summary |-> NoSummary, cache |-> cache]

\* the history up to and including the gameweek replayed
PastHistoryThrough(hist, gw) == SelectSeq(hist, LAMBDA h : h.round <= gw)

\* lines 1033-1035
PastHistory(hist, gw) == SelectSeq(hist, LAMBDA h : h.round < gw)
ActualGames(hist, gw) == SelectSeq(hist, LAMBDA h : h.round = gw)
ActualPoints(actual_games) ==
    RSum[[i \in 1..Len(actual_games) |-> Whole(actual_games[i].total_points)]]

\* lines 1047-1050
MockFixtureForCalc(p, game) ==
    [team_h |-> IF game.was_home THEN p.team ELSE game.opponent_team,
     team_a |-> IF game.was_home THEN game.opponent_team ELSE p.team]

\* lines 1057-1063 (the difficulty key is not read by calculate_xp)
MockFixture(p, game) ==
    [team_h |-> MockFixtureForCalc(p, game).team_h,
     team_a |-> MockFixtureForCalc(p, game).team_a,
     is_home |-> game.was_home, event |-> game.round, opponent |-> "", xp |-> Absent]

\* lines 1068-1070: what the row brings, given what calculate_xp gave
Replayed(r, actual_points) ==
    [err |-> r.err, xp |-> r.out.total_xp, actual_points |-> actual_points]

\* a fixture made up for a player without a game too: at home to another
\* team, in the first gameweek
MockUpcomingAlways(p, actual_games) ==
    IF actual_games = <<>>
    THEN <<[team_h |-> p.team, team_a |-> IF p.team = 1 THEN 2 ELSE 1, is_home |-> TRUE,
            event |-> 1, opponent |-> "", xp |-> Absent]>>
    ELSE [i \in 1..Len(actual_games) |-> MockFixture(p, actual_games[i])]

\* lines 1040-1064: the fixtures made up from the games played
MockUpcoming(p, actual_games) ==
    [i \in 1..Len(actual_games) |-> MockFixture(p, actual_games[i])]

\* lines 1052-1055: the errors of the difficulty lookups of the games
MockLookups(p, actual_games, teams_data, custom) ==
    {GetFixtureDifficulty(custom, MockFixtureForCalc(p, actual_games[i]), p.team,
                          teams_data).err : i \in 1..Len(actual_games)}

\* lines 1030-1070 for one row of the data frame: the error raised, if any,
\* the predicted xP and the actual points
ReplayPlayer(p, hist, gw, teams_data, custom) ==
    IF MockLookups(p, ActualGames(hist, gw), teams_data, custom) \ {"none"} # {}
    THEN [err |-> "KeyError", xp |-> Whole(0), actual_points |-> Whole(0)]
    ELSE Replayed(CalculateXpOf(p, teams_data, custom,
                                MockUpcoming(p, ActualGames(hist, gw)),
                                PastHistory(hist, gw)),
                  ActualPoints(ActualGames(hist, gw)))

\* lines 1072-1078: the row's share of the two totals
AddPlayer(acc, p, captain_id, cache, r) ==
    LET multiplier == IF p.id = captain_id THEN 2 ELSE 1
    IN  IF r.err # "none" THEN [acc EXCEPT !.err = r.err, !.cache = cache]
        ELSE [err |-> "none",
              cache |-> cache,
              predicted |-> RAdd[acc.predicted, RMul[r.xp, Whole(multiplier)]],
              actual |-> RAdd[acc.actual, RMul[r.actual_points, Whole(multiplier)]]]

\* lines 1030-1078 for one row, given its summary s and the cache after it
ReplayRow(acc, p, gw, captain_id, teams_data, custom, s) ==
    AddPlayer(acc, p, captain_id, s.cache,
              ReplayPlayer(p, s.summary.history, gw, teams_data, custom))

\* lines 1029-1078: the loop over the rows of the data frame
RECURSIVE ReplayRows(_, _, _, _, _, _, _)
ReplayRows(acc, rows, gw, captain_id, teams_data, custom, upstream) ==
    IF rows = <<>> \/ acc.err # "none" THEN acc
    ELSE ReplayRows(ReplayRow(acc, Head(rows), gw, captain_id, teams_data, custom,
                              GetPlayerSummary(acc.cache, upstream, Head(rows).id)),
                    Tail(rows), gw, captain_id, teams_data, custom, upstream)

\* -x, and round(x, places) for an x of either sign
RNeg(x) == [n |-> 0 - x.n, d |-> x.d]
RoundSigned(x, places) == IF x.n < 0 THEN RNeg(Round[RNeg(x), places]) ELSE Round[x, places]

\* lines 1080-1087
ResultOf(gw, totals) ==
    [gameweek |-> gw,
     predicted |-> Round[totals.predicted, 1],
     actual |-> Round[totals.actual, 0],
     diff |-> RoundSigned(RAdd[totals.actual, RNeg(totals.predicted)], 1)]

\* lines 1011-1014: the first pick flagged captain, or None (0)
CaptainId(the_picks) ==
    LET flagged == SelectSeq(the_picks, LAMBDA pk : pk.is_captain)
    IN  IF flagged = <<>> THEN 0 ELSE flagged[1].element

\* lines 1080-1087: the gameweek's entry joins the results, unless the
\* gameweek raised
WithResult(acc, gw, totals) ==
    [err |-> totals.err, cache |-> totals.cache,
     results |-> IF totals.err = "none" THEN Append(acc.results, ResultOf(gw, totals))
                 ELSE acc.results]

\* lines 1011, 1025-1027: the rows of the gameweek
SquadFrame(the_picks, data) ==
    FetchAndFilterData(data, NoRole, Whole(999),
                       {the_picks[i].element : i \in 1..Len(the_picks)})

\* lines 1009-1087 for one gameweek whose picks were fetched
ReplayEvent(acc, gw, the_picks, data, custom, upstream) ==
    WithResult(acc, gw,
               ReplayRows([err |-> "none", cache |-> acc.cache,
                           predicted |-> Whole(0), actual |-> Whole(0)],
                          SquadFrame(the_picks, data), gw, CaptainId(the_picks),
                          GetProcessedTeams(data), custom, upstream))

\* lines 1000-1087: the loop over the target gameweeks; picks that cannot be
\* fetched skip the gameweek
RECURSIVE ReplayEvents(_, _, _, _, _, _)
ReplayEvents(acc, target_events, all_picks, data, custom, upstream) ==
    IF target_events = <<>> \/ acc.err # "none" THEN acc
    ELSE ReplayEvents(IF all_picks[Head(target_events).id].ok
                      THEN ReplayEvent(acc, Head(target_events).id,
                                       all_picks[Head(target_events).id].picks, data,
                                       custom, upstream)
                      ELSE acc,
                      Tail(target_events), all_picks, data, custom, upstream)

\* lines 975-1089
ModelPerformance(data, cache, num_weeks, team_id, all_picks, custom, upstream) ==
    IF team_id = NoTeam
    THEN [err |-> "none", cache |-> cache, results |-> <<>>]
    ELSE ReplayEvents([err |-> "none", cache |-> cache, results |-> <<>>],
                      TargetEvents(data, num_weeks), all_picks, data, custom, upstream)

----------------------------------------------------------------------------
(* The backtest run on one manager: a league of three players (1 and 2 of  *)
(* team 1 are picked, 3 of team 2 is not) in gameweek 1, 2 or 3.           *)

Event(id, current, last_finished) ==
    [id |-> id, finished |-> id <= last_finished, is_current |-> id = current,
     is_next |-> id = current + 1]

\* the gameweek in progress is 1, with none finished; 2, with gameweek 1
\* finished; or 3, finished itself but still the current one
PerfEvents ==
    {[i \in 1..4 |-> Event(i, c[1], c[2])] : c \in {<<1, 0>>, <<2, 1>>, <<3, 3>>}}

\* a player who passes the standard filter, or one who does not
PerfStatuses == {<<"a", 500>>, <<"i", 100>>}

PerfElement(id, team, element_type, st) ==
    Element(id, team, element_type, 60, st[1], st[2], 0)

\* the two picked players pass the standard filter or both fail it, and so
\* does, on its own, the player who is not picked
PerfBootstraps ==
    {[events |-> evs,
      elements |-> <<PerfElement(1, 1, PosMID, picked), PerfElement(2, 1, PosFWD, picked),
                     PerfElement(3, 2, PosDEF, other)>>,
      teams |-> <<RawTeam(1, 1100), RawTeam(2, 1000)>>] :
        evs \in PerfEvents, picked \in PerfStatuses, other \in PerfStatuses}

\* a game of the history: the round, the points, the venue, the opponent
Played(round, points, was_home, opponent_team) ==
    [round |-> round, total_points |-> points, was_home |-> was_home,
     opponent_team |-> opponent_team, minutes |-> Whole(90),
     expected_goals |-> Frac[1, 2], expected_assists |-> Frac[1, 5]]

Fetchable(hist) == [ok |-> TRUE, data |-> [fixtures |-> <<>>, history |-> hist]]
Unfetchable == [ok |-> FALSE, data |-> NoSummary]

\* player 1 has two games in gameweek 2; player 2 has one, or none, or a
\* summary that cannot be fetched
PerfSummaries ==
    {[id \in 1..3 |->
        CASE id = 1 -> Fetchable(<<Played(1, 2, TRUE, 2), Played(2, 5, FALSE, 2),
                                   Played(2, 1, TRUE, 2)>>)
          [] id = 2 -> second
          [] id = 3 -> Fetchable(<<Played(1, 6, TRUE, 1), Played(2, 9, FALSE, 1)>>)] :
     second \in {Fetchable(<<Played(1, 10, TRUE, 2), Played(2, 8, TRUE, 2)>>),
                 Fetchable(<<Played(1, 10, TRUE, 2)>>),
                 Unfetchable}}

Pick(element, captain_id) == [element |-> element, is_captain |-> element = captain_id]

\* the picks of a gameweek: players 1 and 2 with either, or neither, as
\* captain, or a request that fails
PickLists ==
    {[ok |-> TRUE, picks |-> <<Pick(1, c), Pick(2, c)>>] : c \in {0, 1, 2}}
        \cup {[ok |-> FALSE, picks |-> <<>>]}

PerfPicks == [1..2 -> PickLists]

EntryId == 123

InitPerf ==
    /\ bootstrap \in PerfBootstraps
    /\ picks \in PerfPicks
    /\ summaries \in PerfSummaries
    /\ custom_fdr = <<>>
    /\ teams = <<>>
    /\ CachesEmpty
    /\ perf_out = <<>>
    /\ LineupIdle /\ FdrIdle /\ MultIdle /\ XpIdle /\ FormIdle /\ CapIdle /\ FetchIdle

GetModelPerformance ==
    /\ Len(perf_out) < MaxRuns
    /\ \E num_weeks \in 1..MaxWeeks, team_id \in {NoTeam, EntryId}, fresh \in BOOLEAN :
         \E data \in {GetBootstrapStatic(bootstrap_static_cache, bootstrap, fresh)} :
            \E r \in {ModelPerformance(data, player_summary_cache, num_weeks, team_id,
                                       picks, custom_fdr, summaries)} :
               /\ bootstrap_static_cache' = data
               /\ player_summary_cache' = r.cache
               /\ perf_out' = Append(perf_out, [num_weeks |-> num_weeks, team_id |-> team_id,
                                                err |-> r.err, results |-> r.results])
    /\ UNCHANGED <<lineupVars, dataVars, fdrVars, mult_seen, xpVars, formVars, capVars, fetchVars,
                   upstreamVars>>

NextPerf == GetModelPerformance

SpecPerf == InitPerf /\ [][NextPerf]_vars

----------------------------------------------------------------------------
(* Claims about _optimize_lineup.                                          *)

Range(s) == {s[i] : i \in 1..Len(s)}
Occurrences(s, x) == Cardinality({i \in 1..Len(s) : s[i] = x})
Called == calls >= 1

\* C1: for every legal 15-player squad (2 GK, 5 DEF, 5 MID, 3 FWD), whatever
\* the xp and cap_score values, the call returns exactly 11 starters and 4
\* bench players, and the starters hold exactly 1 GK, 3 to 5 DEF, 2 to 5 MID
\* and 1 to 3 FWD.
C1_LegalSquadFormation ==
    (Called /\ IsLegal(squad_in)) =>
        /\ Len(starters) = 11
        /\ Len(bench) = 4
        /\ CountPos(starters, PosGK) = 1
        /\ CountPos(starters, PosDEF) \in 3..5
        /\ CountPos(starters, PosMID) \in 2..5
        /\ CountPos(starters, PosFWD) \in 1..3

\* a legal squad in which a benched outfield player ties in xp with a
\* starter of another position
C1_Witness ==
    /\ Called /\ IsLegal(squad_in)
    /\ \E b \in Range(bench) : \E s \in Range(starters) :
         b.position # PosGK /\ s.position # PosGK /\ b.position # s.position /\ b.xp = s.xp

\* C2: every player of the input list (positions GK, DEF, MID, FWD) is in
\* exactly one of starters and bench, once, and nobody else is.
C2_Partition ==
    Called =>
        /\ Len(starters) + Len(bench) = Len(squad_in)
        /\ \A p \in Range(squad_in) : Occurrences(starters \o bench, p) = 1
        /\ Range(starters) \cup Range(bench) = Range(squad_in)

\* a malformed squad: spare goalkeepers on the bench and too many players
C2_Witness ==
    /\ Called
    /\ Len(squad_in) = 16
    /\ CountPos(bench, PosGK) = 2

\* C3: captain and vice-captain are two different starters when there are
\* at least 2 starters; with 1 starter the vice-captain is unset, with none
\* both are unset.
C3_CaptainAndVice ==
    Called =>
        /\ Len(starters) >= 2 =>
             /\ captain \in Range(starters)
             /\ vice_captain \in Range(starters)
             /\ captain.id # vice_captain.id
        /\ Len(starters) = 1 => (captain = starters[1] /\ vice_captain = None)
        /\ Len(starters) = 0 => (captain = None /\ vice_captain = None)

\* captain and vice-captain with the same cap_score
C3_Witness ==
    /\ Called
    /\ Len(starters) >= 2
    /\ captain.cap_score = vice_captain.cap_score

\* C4: the captain's cap_score is at least that of every starter, the
\* vice-captain's at least that of every starter but the captain, and no
\* bench player is captain or vice-captain.
C4_CaptainIsBest ==
    Called =>
        /\ \A s \in Range(starters) : captain.cap_score >= s.cap_score
        /\ \A s \in Range(starters) :
             s.id # captain.id => vice_captain.cap_score >= s.cap_score
        /\ \A b \in Range(bench) : b.id # captain.id /\ b.id # vice_captain.id

\* a bench player whose cap_score is higher than every starter's
C4_Witness ==
    /\ Called
    /\ Len(starters) >= 2
    /\ \E b \in Range(bench) : \A s \in Range(starters) : b.cap_score > s.cap_score

\* C5: a second call on the same list returns the same starters in the same
\* order, the same bench, the same captain and the same vice-captain.
C5_Idempotent ==
    calls >= 2 =>
        /\ starters = prev.starters
        /\ bench = prev.bench
        /\ captain = prev.captain
        /\ vice_captain = prev.vice_captain

\* a second call on a legal squad with ties in xp and in cap_score
C5_Witness ==
    /\ calls = 2
    /\ IsLegal(squad_in)
    /\ \E i, j \in 1..Len(squad_in) :
         i # j /\ squad_in[i].xp = squad_in[j].xp /\ squad_in[i].position = squad_in[j].position
    /\ captain.cap_score = vice_captain.cap_score

----------------------------------------------------------------------------
(* Claims about get_fixture_difficulty and _calculate_fixture_multiplier.  *)

FdrCalled == fdr_call # NoCall

\* the opponent of the asking team in the last call, read off the fixture
CalledOpponent ==
    IF fdr_call.fixture.team_h = fdr_call.team_id
    THEN fdr_call.fixture.team_a ELSE fdr_call.fixture.team_h

\* C6: get_fixture_difficulty always returns an integer in 1..5; an
\* override value outside 1..5 is clamped into [1,5] before it is returned.
C6_DifficultyInRange ==
    FdrCalled => (fdr_result.err = "none" /\ fdr_result.val \in 1..5)

\* C7: with an entry for the opponent's name in the table, the result is
\* that entry's A value when the asking team is the home side and its H
\* value when the asking team is the away side, whatever the opponent's
\* ratings and whatever the asking team's own entry.
C7_OverrideOfOpponentVenue ==
    (FdrCalled /\ teams[CalledOpponent].name \in DOMAIN custom_fdr) =>
        LET entry == custom_fdr[teams[CalledOpponent].name]
        IN  /\ fdr_call.team_id = fdr_call.fixture.team_h =>
                 fdr_result = [err |-> "none", val |-> entry.A]
            /\ fdr_call.team_id = fdr_call.fixture.team_a =>
                 fdr_result = [err |-> "none", val |-> entry.H]

\* the asking team is away, both teams have an entry, and the value
\* returned is neither of the asking team's own entry nor the opponent's
\* other value nor what the ratings give
C7_Witness ==
    /\ FdrCalled
    /\ fdr_call.team_id = fdr_call.fixture.team_a
    /\ DOMAIN custom_fdr = {TeamName(1), TeamName(2)}
    /\ LET own == custom_fdr[teams[fdr_call.team_id].name]
           entry == custom_fdr[teams[CalledOpponent].name]
       IN  /\ fdr_result.val = entry.H
           /\ entry.H \notin {entry.A, own.H, own.A}
           /\ entry.H # StrengthDifficulty(teams[CalledOpponent])

\* C9: over the difficulties 1..5 the multiplier is strictly decreasing,
\* and it is exactly 1 at difficulty 3.
C9_MultiplierDecreasing ==
    /\ \A d1, d2 \in DOMAIN mult_seen \cap (1..5) :
         d1 < d2 => RLess[mult_seen[d2], mult_seen[d1]]
    /\ 3 \in DOMAIN mult_seen => mult_seen[3] = [n |-> 1, d |-> 1]

\* the multiplier has been computed for every difficulty of 1..5
C9_Witness == (1..5) \subseteq DOMAIN mult_seen

----------------------------------------------------------------------------
(* Claims about calculate_xp.                                              *)

XpCalled == xp_pc \in {"returned", "raised"}

\* the fixtures calculate_xp looks at, as places in the list
Upcoming == 1..(IF Len(fixtures_in) < NEXT_N_GW THEN Len(fixtures_in) ELSE NEXT_N_GW)

\* the fixture at place i references a team that is not in the index
MissingTeam(i) ==
    \/ XpOpponentId(fixtures_in[i]) \notin DOMAIN teams
    \/ player.team \notin DOMAIN teams

\* the xP the call wrote on the fixture at place i, 0 if it wrote none
WrittenXp(i) == IF fixtures[i].xp = Absent THEN Whole(0) ELSE fixtures[i].xp[1]

\* C8: a fixture whose opponent or whose own team is missing from the team
\* index is skipped: the call raises no error, leaves that fixture as it
\* was, adds nothing for it to the total or to the per-gameweek map, and
\* processes every other fixture.
C8_MissingTeamSkipped ==
    XpCalled =>
        /\ xp_pc = "returned"
        /\ \A i \in Upcoming : MissingTeam(i) => fixtures[i] = fixtures_in[i]
        /\ \A i \in Upcoming : ~MissingTeam(i) => fixtures[i].xp # Absent
        /\ xp_out.total_xp = RSum[[i \in Upcoming |-> WrittenXp(i)]]
        /\ DOMAIN xp_out.gw_points =
             {fixtures_in[i].event : i \in {j \in Upcoming : ~MissingTeam(j)}} \ {0}

\* C10: with an empty history the call raises no error; weighted form,
\* minutes, xG and xA are 0, every breakdown has appearance points 0 and
\* base attacking potential 0, and a FWD gets xP 0 for every fixture and a
\* total of 0.
C10_EmptyHistoryZero ==
    (XpCalled /\ history = <<>>) =>
        /\ xp_pc = "returned"
        /\ CalculateWeightedForm(history) = Whole(0)
        /\ CalculateWeightedMinutes(history) = Whole(0)
        /\ CalculateWeightedMetric(history, "expected_goals") = Whole(0)
        /\ CalculateWeightedMetric(history, "expected_assists") = Whole(0)
        /\ \A gw \in DOMAIN xp_out.breakdowns :
             /\ xp_out.breakdowns[gw].app_points = Whole(0)
             /\ xp_out.breakdowns[gw].base_attack = Whole(0)
        /\ player.position = PosFWD =>
             /\ xp_out.total_xp = Whole(0)
             /\ \A gw \in DOMAIN xp_out.gw_points : xp_out.gw_points[gw] = Whole(0)
             /\ \A i \in 1..Len(fixtures) : fixtures[i].xp \in {Absent, Some(Whole(0))}

\* the player without any set-piece order, and what the same call returns
\* for that player
WithoutOrders(p) ==
    [p EXCEPT !.penalties_order = 0, !.direct_freekicks_order = 0,
              !.corners_and_indirect_freekicks_order = 0]
WithoutOrdersResult ==
    CalculateXpOf(WithoutOrders(player), teams, custom_fdr, fixtures_in, history)

TakesPenalties == player.penalties_order = 1
TakesSetPieces ==
    player.direct_freekicks_order = 1 \/ player.corners_and_indirect_freekicks_order = 1

\* C11: the xP of a fixture is 1.15 times the xP without set-piece orders
\* and the breakdown has pen_bonus = 1.15 exactly when penalties_order is
\* 1; it is 1.05 times and the breakdown has set_piece_bonus = 1.05 exactly
\* when direct_freekicks_order or corners_and_indirect_freekicks_order is 1
\* (once when both are); with both kinds the factor is 1.15 x 1.05, with
\* neither there is no factor and neither key.
C11_SetPieceBonuses ==
    xp_pc = "returned" =>
        LET factor == RMul[IF TakesPenalties THEN Frac[115, 100] ELSE Whole(1),
                           IF TakesSetPieces THEN Frac[105, 100] ELSE Whole(1)]
            plain == WithoutOrdersResult.fixtures
        IN  /\ \A gw \in DOMAIN xp_out.breakdowns :
                 /\ xp_out.breakdowns[gw].pen_bonus =
                      IF TakesPenalties THEN Some(Frac[115, 100]) ELSE Absent
                 /\ xp_out.breakdowns[gw].set_piece_bonus =
                      IF TakesSetPieces THEN Some(Frac[105, 100]) ELSE Absent
            /\ \A i \in 1..Len(fixtures) :
                 fixtures[i].xp =
                   IF plain[i].xp = Absent THEN Absent
                   ELSE Some(RMul[plain[i].xp[1], factor])

\* a penalty taker who also takes free kicks and corners, with a fixture
\* worth more than 0
C11_Witness ==
    /\ xp_pc = "returned"
    /\ TakesPenalties
    /\ player.direct_freekicks_order = 1
    /\ player.corners_and_indirect_freekicks_order = 1
    /\ \E gw \in DOMAIN xp_out.breakdowns :
         /\ xp_out.breakdowns[gw].pen_bonus # Absent
         /\ RLess[Whole(0), xp_out.gw_points[gw]]

\* C14: calculate_xp leaves its inputs as they were: the player record, the
\* team index, the history list and every fixture record of the supplied
\* list have the same fields and values after the call as before it.
C14_InputsUntouched ==
    [][CalculateXp => /\ player' = player
                      /\ teams' = teams
                      /\ history' = history
                      /\ fixtures' = fixtures]_vars

\* the mean of the called opponent's two ratings
OpponentMean ==
    Frac[teams[CalledOpponent].strength_d + teams[CalledOpponent].strength_a, 2]

NoOverrideApplies == teams[CalledOpponent].name \notin DOMAIN custom_fdr

\* C16: when no override applies to the opponent the result is decided by
\* the mean m of the opponent's two ratings alone, the same for a home and
\* an away asking team: 2 if m < 1050, 3 if 1050 <= m < 1150, 4 if
\* 1150 <= m < 1250, 5 if m >= 1250, and never 1.
C16_StrengthBuckets ==
    (FdrCalled /\ NoOverrideApplies) =>
        /\ fdr_result.err = "none"
        /\ fdr_result.val # 1
        /\ fdr_result.val =
             IF RLess[OpponentMean, Whole(1050)] THEN 2
             ELSE IF RLess[OpponentMean, Whole(1150)] THEN 3
             ELSE IF RLess[OpponentMean, Whole(1250)] THEN 4
             ELSE 5

\* the asking team is away and has an entry of its own, the opponent has
\* none and its mean of 1049.5 lies just under the first boundary
C16_Witness ==
    /\ FdrCalled
    /\ NoOverrideApplies
    /\ custom_fdr # <<>>
    /\ fdr_call.team_id = fdr_call.fixture.team_a
    /\ teams[CalledOpponent].strength_d = 1049
    /\ teams[CalledOpponent].strength_a = 1050
    /\ fdr_result.val = 2

\* C17: with the default configuration the fixture multiplier of a
\* difficulty of 1..5 is 1.0 + (3 - difficulty) x 0.08, that is 1.16, 1.08,
\* 1.00, 0.92 and 0.84.
C17_DefaultFactor ==
    \A d \in DOMAIN mult_seen \cap (1..5) :
        /\ mult_seen[d] = RAdd[Whole(1), RMul[Whole(3 - d), Frac[8, 100]]]
        /\ mult_seen[d] = <<Frac[116, 100], Frac[108, 100], Frac[100, 100],
                            Frac[92, 100], Frac[84, 100]>>[d]

\* the appearance points of the player of the call, by the thresholds on the
\* weighted minutes
AppearancePoints ==
    LET m == CalculateWeightedMinutes(history)
    IN  IF RLeq[Whole(60), m] THEN Whole(2)
        ELSE IF RLess[Whole(0), m] THEN Whole(1)
        ELSE Whole(0)

\* the factor of the set-piece and availability scaling of the call
ScalingFactor ==
    RMul[RMul[IF TakesPenalties THEN Frac[115, 100] ELSE Whole(1),
              IF TakesSetPieces THEN Frac[105, 100] ELSE Whole(1)],
         Frac[Chance(player), 100]]

\* the position's performance points of fixture f, before any scaling
PerformancePoints(f) ==
    LET d == GetFixtureDifficulty(custom_fdr, f, player.team, teams).val
        md == GetFixtureDifficulty(custom_fdr, f, XpOpponentId(f), teams).val
        clamped == CalculateCsProbability(md, d)
        cs_prob == IF f.is_home THEN RAdd[clamped, Frac[5, 100]] ELSE clamped
    IN  Performance(player, cs_prob, BaseAttackPotential(player, history),
                    CalculateMatchupMultiplier(player, d, md),
                    CalculateSavePoints(md, d)).performance_xp

\* the product of the fixture and venue multipliers of fixture f
FixtureAndVenue(f) ==
    RMul[CalculateFixtureMultiplier(
             GetFixtureDifficulty(custom_fdr, f, player.team, teams).val),
         IF f.is_home THEN HomeBoost ELSE AwayPenalty]

\* C19: in threat-model mode the xP of every processed fixture, before the
\* set-piece and availability scaling, is appearance points + performance
\* points x fixture multiplier x venue multiplier; the appearance points
\* (2 if weighted minutes >= 60, 1 if 0 < weighted minutes < 60, else 0) are
\* the same for every fixture of the player, whatever its difficulty and
\* venue, and only the performance points are scaled.
C19_AppearanceUnscaled ==
    xp_pc = "returned" =>
        /\ \A gw \in DOMAIN xp_out.breakdowns :
             xp_out.breakdowns[gw].app_points = AppearancePoints
        /\ \A i \in 1..Len(fixtures) :
             (fixtures[i].xp # Absent /\ Chance(player) # 0) =>
                 RDiv[fixtures[i].xp[1], ScalingFactor] =
                     RAdd[AppearancePoints,
                          RMul[PerformancePoints(fixtures_in[i]),
                               FixtureAndVenue(fixtures_in[i])]]

\* a late substitute's two fixtures, one at home and one away against
\* opponents of different difficulty: both carry the one appearance point,
\* and the xP differ
C19_Witness ==
    /\ xp_pc = "returned"
    /\ AppearancePoints = Whole(1)
    /\ \E g1, g2 \in DOMAIN xp_out.breakdowns :
         /\ xp_out.breakdowns[g1].is_home /\ ~xp_out.breakdowns[g2].is_home
         /\ xp_out.breakdowns[g1].difficulty # xp_out.breakdowns[g2].difficulty
         /\ xp_out.breakdowns[g1].app_points = Whole(1)
         /\ xp_out.breakdowns[g2].app_points = Whole(1)
         /\ xp_out.gw_points[g1] # xp_out.gw_points[g2]

\* the processed fixture whose breakdown is kept under gameweek gw: the
\* last one of that gameweek
KeptFixture(gw) ==
    CHOOSE i \in 1..Len(fixtures) :
        /\ fixtures[i].xp # Absent /\ fixtures_in[i].event = gw
        /\ \A j \in (i + 1)..Len(fixtures) :
             ~(fixtures[j].xp # Absent /\ fixtures_in[j].event = gw)

\* the difficulty the opponent faces in fixture f
MyTeamDifficulty(f) == GetFixtureDifficulty(custom_fdr, f, XpOpponentId(f), teams).val

\* C20: the clean-sheet probability of a fixture is 0.30 + 0.10 x
\* (myTeamDifficulty - difficulty), clamped to [0.05, 0.80], plus a flat
\* 0.05 at home, added after the clamp; with both difficulties in 1..5 it
\* lies in [0.05, 0.80] away and in [0.10, 0.85] at home.
C20_CleanSheetProbability ==
    xp_pc = "returned" =>
        \A gw \in DOMAIN xp_out.breakdowns :
            LET b == xp_out.breakdowns[gw]
                md == MyTeamDifficulty(fixtures_in[KeptFixture(gw)])
                raw == RAdd[Frac[30, 100], RMul[Frac[10, 100], Whole(md - b.difficulty)]]
                clamped == IF RLess[raw, Frac[5, 100]] THEN Frac[5, 100]
                           ELSE IF RLess[Frac[80, 100], raw] THEN Frac[80, 100]
                           ELSE raw
            IN  /\ b.cs_prob = IF b.is_home THEN RAdd[clamped, Frac[5, 100]] ELSE clamped
                /\ (md \in 1..5 /\ b.difficulty \in 1..5) =>
                     IF b.is_home
                     THEN RLeq[Frac[10, 100], b.cs_prob] /\ RLeq[b.cs_prob, Frac[85, 100]]
                     ELSE RLeq[Frac[5, 100], b.cs_prob] /\ RLeq[b.cs_prob, Frac[80, 100]]

\* a home fixture against a much stronger opponent: the sum is 0, below the
\* lower end of the clamp, and the probability is 0.05 + 0.05
C20_Witness ==
    /\ xp_pc = "returned"
    /\ \E gw \in DOMAIN xp_out.breakdowns :
         /\ xp_out.breakdowns[gw].is_home
         /\ MyTeamDifficulty(fixtures_in[KeptFixture(gw)]) -
              xp_out.breakdowns[gw].difficulty = -3
         /\ xp_out.breakdowns[gw].cs_prob = Frac[10, 100]

----------------------------------------------------------------------------
(* Claims about _calculate_weighted_form.                                  *)

\* the weight of the i-th game counted from the most recent one
WeightOf(i) == Frac[11 - i, 10]

\* C18: over a history of n >= 1 records the weighted form uses the last
\* k = min(5, n) records only, with weight 1.0 for the most recent and 0.9,
\* 0.8, 0.7, 0.6 going back, and is the sum of weight x total_points
\* divided by the sum of the k weights used; records older than the last 5
\* do not change it.
C18_WeightedForm ==
    (form_out # Absent /\ Len(history) >= 1) =>
        LET n == Len(history)
            k == IF n < 5 THEN n ELSE 5
            points == RSum[[i \in 1..k |->
                              RMul[Whole(history[n + 1 - i].total_points), WeightOf(i)]]]
            weights == RSum[[i \in 1..k |-> WeightOf(i)]]
        IN  /\ form_out = Some(RDiv[points, weights])
            /\ form_out = Some(CalculateWeightedForm(Drop(history, n - k)))

\* six games: the oldest with 2 points has no weight, the next with 1
\* point has weight 0.6, the four recent ones have 0 points: 0.6 / 4.0
C18_Witness ==
    /\ Len(history) = 6
    /\ history[1].total_points = 2
    /\ history[2].total_points = 1
    /\ \A i \in 3..6 : history[i].total_points = 0
    /\ form_out = Some(Frac[3, 20])

----------------------------------------------------------------------------
(* Claims about fetch_and_filter_data.                                     *)

Fetched == fetch_call.made

\* the players of the league, and the ids of the rows returned
LeaguePlayers == {bootstrap.elements[i] : i \in 1..Len(bootstrap.elements)}
ReturnedIds == {fetch_out[i].id : i \in 1..Len(fetch_out)}

\* the four filters of the claim
PassesFilters(p) ==
    /\ fetch_call.role_id = NoRole \/ p.element_type = fetch_call.role_id
    /\ RLeq[Frac[p.now_cost, 10], fetch_call.max_budget]
    /\ p.status = "a" \/ p.status = "d"
    /\ p.minutes > 200

\* C15: fetch_and_filter_data returns a player if and only if its id is in
\* include_ids, or its element_type is the role asked for (or none is asked
\* for), its now_cost/10 is at most max_budget, its status is 'a' or 'd'
\* and its minutes are more than 200; a player in include_ids is returned
\* even when it fails the filters.
C15_FilterRule ==
    Fetched =>
        /\ \A p \in LeaguePlayers :
             p.id \in ReturnedIds <=> (p.id \in fetch_call.include_ids \/ PassesFilters(p))
        /\ ReturnedIds \subseteq {p.id : p \in LeaguePlayers}

\* player 1 is asked for by id and fails every filter (a goalkeeper when
\* midfielders are asked for, 6.1 against a budget of 6.0, injured, 200
\* minutes) and is returned; player 2 passes all four and is returned; the
\* unknown id brings nothing
C15_Witness ==
    /\ Fetched
    /\ fetch_call.include_ids = {1, UnknownId}
    /\ fetch_call.role_id = PosMID
    /\ fetch_call.max_budget = Whole(6)
    /\ \E p \in LeaguePlayers :
         /\ p.id = 1 /\ p.element_type = PosGK /\ p.now_cost = 61
         /\ p.status = "i" /\ p.minutes = 200
    /\ \E p \in LeaguePlayers : p.id = 2 /\ PassesFilters(p) /\ p.now_cost = 60
    /\ ReturnedIds = {1, 2}

----------------------------------------------------------------------------
(* Claims about get_model_performance.                                     *)

\* the picks of gameweek gw and the rows of the players picked
PickedIds(gw) == {picks[gw].picks[i].element : i \in 1..Len(picks[gw].picks)}
SquadRows(gw) ==
    SelectSeq([i \in 1..Len(bootstrap.elements) |->
                 FetchedRow(bootstrap.elements[i], TeamsWithP1(bootstrap))],
              LAMBDA row : row.id \in PickedIds(gw))

\* a squad member's predicted xP and actual points of gameweek gw, from
\* the history the API has for the player
MemberReplay(row, gw) ==
    ReplayPlayer(row,
                 IF summaries[row.id].ok THEN summaries[row.id].data.history ELSE <<>>,
                 gw, GetProcessedTeams(bootstrap), custom_fdr)

\* how often a squad member counts: twice when flagged captain
TimesCounted(row, gw) ==
    IF \E i \in 1..Len(picks[gw].picks) :
          picks[gw].picks[i].element = row.id /\ picks[gw].picks[i].is_captain
    THEN 2 ELSE 1

SquadPredicted(gw) ==
    RSum[[i \in 1..Len(SquadRows(gw)) |->
            RMul[MemberReplay(SquadRows(gw)[i], gw).xp,
                 Whole(TimesCounted(SquadRows(gw)[i], gw))]]]
SquadActual(gw) ==
    RSum[[i \in 1..Len(SquadRows(gw)) |->
            RMul[MemberReplay(SquadRows(gw)[i], gw).actual_points,
                 Whole(TimesCounted(SquadRows(gw)[i], gw))]]]

\* C12: for each replayed gameweek the predicted total is the sum over the
\* squad members of their predicted xP and the actual total the sum of
\* their actual points of that gameweek, the pick flagged captain counted
\* twice in both and every other member once; with no captain flagged
\* nobody is doubled.
C12_SquadTotals ==
    \A k \in 1..Len(perf_out) :
        \A j \in 1..Len(perf_out[k].results) :
            LET res == perf_out[k].results[j]
            IN  /\ res.predicted = Round[SquadPredicted(res.gameweek), 1]
                /\ res.actual = Round[SquadActual(res.gameweek), 0]

\* C13: get_model_performance is deterministic: two runs in a row on the
\* same manager with the same arguments and the same upstream data return
\* the same list of gameweek, predicted, actual and diff values; the
\* caches filled by the first run do not change what the second returns.
C13_Deterministic ==
    \A k \in 1..(Len(perf_out) - 1) :
        (/\ perf_out[k].num_weeks = perf_out[k + 1].num_weeks
         /\ perf_out[k].team_id = perf_out[k + 1].team_id) =>
            /\ perf_out[k + 1].err = perf_out[k].err
            /\ perf_out[k + 1].results = perf_out[k].results

\* two runs over both finished gameweeks with a captain in one of them:
\* the first filled both caches, the second read them, and both returned
\* the same two entries with a prediction above 0
C13_Witness ==
    /\ Len(perf_out) = 2
    /\ perf_out[1].num_weeks = 2 /\ perf_out[2].num_weeks = 2
    /\ perf_out[1].team_id = EntryId /\ perf_out[2].team_id = EntryId
    /\ bootstrap_static_cache = bootstrap
    /\ DOMAIN player_summary_cache = {1, 2, 3}
    /\ Len(perf_out[2].results) = 2
    /\ perf_out[2].results = perf_out[1].results
    /\ \A j \in 1..2 : RLess[Whole(0), perf_out[2].results[j].predicted]
    /\ \E i \in 1..2 : picks[2].picks[i].is_captain

----------------------------------------------------------------------------
(* Further claims about _optimize_lineup.                                  *)

\* the cap of a position among the starters
CapOfPosition(pos) ==
    CASE pos = PosGK -> 1 [] pos = PosDEF -> CapDef [] pos = PosMID -> CapMid
      [] pos = PosFWD -> CapFwd

\* the candidates of the fill loop in the order it visits them
Candidates ==
    RemainingOutfield(ByPosition(squad_xp, PosDEF), ByPosition(squad_xp, PosMID),
                      ByPosition(squad_xp, PosFWD))

\* the starters chosen before the fill loop visits rem[i]: the core and the
\* candidates started earlier; and those of them of rem[i]'s position
StartedBefore(core, started, rem, i) ==
    Cardinality(core) + Cardinality({j \in 1..(i - 1) : rem[j] \in started})
StartedBeforeAt(core, started, rem, i) ==
    Cardinality({s \in core : s.position = rem[i].position})
      + Cardinality({j \in 1..(i - 1) :
                        rem[j] \in started /\ rem[j].position = rem[i].position})

Benched(rem) ==
    \A started \in {Range(starters)}, benched \in {Range(bench)} :
        \A core \in {started \ Range(rem)} :
            \A i \in 1..Len(rem) :
                rem[i] \in benched <=>
                    \/ StartedBefore(core, started, rem, i) = MaxStarters
                    \/ StartedBeforeAt(core, started, rem, i) = CapOfPosition(rem[i].position)

\* C23: whatever the size and composition of the squad, there are at most 11
\* starters, of them at most 1 GK, 5 DEF, 5 MID and 3 FWD; and a candidate of
\* the fill loop goes to the bench exactly when 11 starters are already
\* chosen or the cap of its position is already met.
C23_CapsAndBench ==
    Called =>
        /\ Len(starters) <= MaxStarters
        /\ \A pos \in Positions : CountPos(starters, pos) <= CapOfPosition(pos)
        /\ \A rem \in {Candidates} : Benched(rem)

\* a sixth DEF benched by the cap although a candidate visited later, with a
\* lower xp, is started
C23_Witness ==
    /\ Called
    /\ CountPos(starters, PosDEF) = CapDef
    /\ \E i, j \in 1..Len(Candidates) :
         /\ i < j
         /\ Candidates[i].position = PosDEF /\ Candidates[i] \in Range(bench)
         /\ Candidates[j] \in Range(starters)
         /\ Candidates[i].xp > Candidates[j].xp

\* C24: the call leaves its input unchanged: afterwards the caller's list
\* holds the same player records in the same order as before the call.
C24_InputUnchanged == Called => squad_xp = squad_in

RECURSIVE SumXp(_)
SumXp(s) == IF s = <<>> THEN 0 ELSE Head(s).xp + SumXp(Tail(s))

\* the places of the squad's players of the given positions
PlacesOf(squad, poss) == {i \in 1..Len(squad) : squad[i].position \in poss}

\* the number of players of each position in the squad
Composition(squad) == [pos \in Positions |-> CountPos(squad, pos)]

\* the number of players of a position a line-up keeps when the players at
\* the places out are left out of a squad of composition n
Kept(squad, n, out, pos) == n[pos] - Cardinality({i \in out : squad[i].position = pos})

\* leaving out keeps exactly 1 GK, 3 to 5 DEF, 2 to 5 MID and 1 to 3 FWD
IsFormation(squad, n, out) ==
    /\ Kept(squad, n, out, PosGK) = 1
    /\ Kept(squad, n, out, PosDEF) \in CoreDef..CapDef
    /\ Kept(squad, n, out, PosMID) \in CoreMid..CapMid
    /\ Kept(squad, n, out, PosFWD) \in CoreFwd..CapFwd

\* the xp of the 11 players kept when one GK and three outfield players,
\* four different players, are left out of a squad of 15 whose xp sums to
\* total; gks and outs are the places of the goalkeepers and of the others
OtherLineupsOf(squad, n, total, gks, outs) ==
    UNION {UNION {UNION {
        {total - squad[g].xp - squad[a].xp - squad[b].xp - squad[c].xp :
            g \in {x \in gks : IsFormation(squad, n, {x, a, b, c})}} :
        c \in {x \in outs : x > b}} : b \in {x \in outs : x > a}} : a \in outs}

OtherLineups(squad) ==
    UNION {OtherLineupsOf(squad, n, total, gks, outs) :
              n \in {Composition(squad)}, total \in {SumXp(squad)},
              gks \in {PlacesOf(squad, {PosGK})},
              outs \in {PlacesOf(squad, {PosDEF, PosMID, PosFWD})}}

\* C29: for every legal squad (2 GK, 5 DEF, 5 MID, 3 FWD) the xp of the
\* returned starters sums to at least the xp of every other choice of 11
\* players with exactly 1 GK, 3 to 5 DEF, 2 to 5 MID and 1 to 3 FWD.
C29_GreedyIsOptimal ==
    (Called /\ IsLegal(squad_in)) =>
        \A best \in {SumXp(starters)} :
            \A other \in OtherLineups(squad_in) : best >= other

\* a legal squad with pairwise different xp whose returned line-up is
\* strictly better than another formation and whose bench holds an
\* outfield player with more xp than a starter
C29_Witness ==
    /\ Called /\ IsLegal(squad_in)
    /\ \A i, j \in 1..Len(squad_in) : i # j => squad_in[i].xp # squad_in[j].xp
    /\ \E other \in OtherLineups(squad_in) : SumXp(starters) > other
    /\ \E b \in Range(bench) : \E s \in Range(starters) : b.position # PosGK /\ b.xp > s.xp

\* no two players of the squad share an xp, and no two a cap_score
PairwiseDistinct(squad) ==
    \A i, j \in 1..Len(squad) :
        i # j => squad[i].xp # squad[j].xp /\ squad[i].cap_score # squad[j].cap_score

\* other orderings of a list: reversed, rotated, two neighbours swapped,
\* and the rotations of the reversed list
Rotated(s, k) == SubSeq(s, k + 1, Len(s)) \o SubSeq(s, 1, k)
Swapped(s, k) == [i \in 1..Len(s) |-> IF i = k THEN s[k + 1] ELSE IF i = k + 1 THEN s[k] ELSE s[i]]
Orderings(s) ==
    {Rotated(s, k) : k \in 1..(Len(s) - 1)}
      \cup {Rotated(Reverse(s), k) : k \in 0..(Len(s) - 1)}
      \cup {Swapped(s, k) : k \in 1..(Len(s) - 1)}

\* the call on another ordering chooses as the last call did
SameChoice(r) ==
    /\ Range(r.starters) = Range(starters)
    /\ Range(r.bench) = Range(bench)
    /\ r.captain = captain
    /\ r.vice_captain = vice_captain

\* C30: when all xp values of the squad differ and all cap_score values
\* differ, the call on any other ordering of the same squad returns the same
\* set of starters, the same set of bench players, the same captain and the
\* same vice-captain.
C30_OrderIndependent ==
    (Called /\ PairwiseDistinct(squad_in)) =>
        \A other \in Orderings(squad_in) : \A r \in {OptimizeLineup(other)} : SameChoice(r)

\* a legal squad of pairwise different values handed over in an order that
\* is not the order by xp, with a captain who is not the best by xp
C30_Witness ==
    /\ Called /\ PairwiseDistinct(squad_in) /\ IsLegal(squad_in)
    /\ squad_in # squad_xp
    /\ captain # squad_xp[1]
    /\ Len(bench) = 4

----------------------------------------------------------------------------
(* Claims about _calculate_cap_score.                                      *)

CapCalled == cap_out # Absent

\* the factors of the claim
CapA == IF cap_call.position \in {PosMID, PosFWD} THEN Frac[11, 10] ELSE Whole(1)
CapB ==
    IF cap_call.selected_by_percent # Absent /\ RLess[Whole(30), cap_call.selected_by_percent[1]]
    THEN Frac[105, 100] ELSE Whole(1)
\* the mean of minutes over the last min(3, n) records, 0 for no record
LastRecords == IF Len(history) < 3 THEN Len(history) ELSE 3
MeanOfLast ==
    IF LastRecords = 0 THEN Whole(0)
    ELSE RDiv[RSum[[i \in 1..LastRecords |-> history[Len(history) - LastRecords + i].minutes]],
              Whole(LastRecords)]
CapC == IF RLess[MeanOfLast, Whole(60)] THEN Frac[1, 2] ELSE Whole(1)

\* C22: the cap score is next_gw_xp x a x b x c, not clamped: a is 1.1 for
\* a MID or FWD, b is 1.05 for a selected_by_percent strictly above 30, c is
\* 0.5 when the mean of minutes over the last min(3, n) history records is
\* below 60, taken as 0 for an empty history; each is 1 otherwise.
C22_CapScore ==
    CapCalled =>
        cap_out = Some(RMul[RMul[RMul[cap_call.next_gw_xp, CapA], CapB], CapC])

\* a forward owned by more than 30 percent whose last three games average
\* exactly 60 minutes after an unused first one: all three factors differ
\* from what the whole history would give
C22_Witness ==
    /\ CapCalled
    /\ cap_call.position = PosFWD
    /\ cap_call.selected_by_percent = Some(Frac[301, 10])
    /\ cap_call.next_gw_xp = Whole(6)
    /\ history = <<MinutesGame(0), MinutesGame(60), MinutesGame(60), MinutesGame(60)>>
    /\ cap_out = Some(Frac[693, 100])

----------------------------------------------------------------------------
(* Further claims about calculate_xp.                                      *)

\* what the same call returns for the player at full availability
FullyAvailable(p) == [p EXCEPT !.chance_of_playing = Some(100)]
FullyAvailableResult ==
    CalculateXpOf(FullyAvailable(player), teams, custom_fdr, fixtures_in, history)

\* the xP written on each fixture is share/100 of the one written at full
\* availability, on the fixtures that got one
ScaledBy(full, share) ==
    \A i \in 1..Len(fixtures) :
        fixtures[i].xp =
            IF full[i].xp = Absent THEN Absent
            ELSE Some(RMul[full[i].xp[1], Frac[share, 100]])

\* C21: each fixture's xP is multiplied by availability/100: with a
\* chance_of_playing of 0 every fixture has xP 0, with c in 0..100 exactly
\* c/100 of the xP at full availability; a missing chance_of_playing raises
\* no error and gives the result of 100.
C21_Availability ==
    XpCalled =>
        /\ player.chance_of_playing = Absent =>
             /\ xp_pc = "returned"
             /\ \A r \in {FullyAvailableResult} : xp_out = r.out /\ fixtures = r.fixtures
        /\ (xp_pc = "returned" /\ player.chance_of_playing # Absent) =>
             /\ ScaledBy(FullyAvailableResult.fixtures, player.chance_of_playing[1])
             /\ player.chance_of_playing = Some(0) =>
                  \A i \in 1..Len(fixtures) : fixtures[i].xp \in {Absent, Some(Whole(0))}

\* the places of the fixtures the call processed, and those of them that
\* fall in gameweek gw
Processed == {i \in Upcoming : fixtures[i].xp # Absent}
XpInGameweek(gw) ==
    RSum[[i \in 1..Len(fixtures) |->
            IF i \in Processed /\ fixtures_in[i].event = gw THEN fixtures[i].xp[1]
            ELSE Whole(0)]]

\* the sum of the values of a per-gameweek map whose keys are at most last
SumOfMap(map, last) ==
    RSum[[gw \in 1..last |-> IF gw \in DOMAIN map THEN map[gw] ELSE Whole(0)]]

\* x and y differ by at most entries half-cents, the rounding of that many
\* values to 2 decimals
WithinRounding(x, y, entries) ==
    /\ RLeq[RAdd[x, RNeg(y)], Frac[entries, 200]]
    /\ RLeq[RAdd[y, RNeg(x)], Frac[entries, 200]]

\* C28: every processed fixture among the first 5 that has a gameweek is in
\* the per-gameweek map and in the breakdown map under its gameweek; the
\* value of a gameweek is the rounded sum of the xP of its fixtures, of both
\* in a double gameweek; and the total equals the sum of the per-gameweek
\* values up to their rounding.
C28_PerGameweekMap ==
    xp_pc = "returned" =>
        /\ \A i \in Processed :
             fixtures_in[i].event # 0 =>
                 /\ fixtures_in[i].event \in DOMAIN xp_out.gw_points
                 /\ fixtures_in[i].event \in DOMAIN xp_out.breakdowns
        /\ \A gw \in DOMAIN xp_out.gw_points :
             xp_out.gw_points[gw] = Round[XpInGameweek(gw), 2]
        /\ WithinRounding(xp_out.total_xp, SumOfMap(xp_out.gw_points, NEXT_N_GW + 1),
                          Cardinality(DOMAIN xp_out.gw_points))

----------------------------------------------------------------------------
(* Further claims about get_model_performance.                             *)

\* the gameweek flagged current, and the finished gameweeks below it
CurrentEvent ==
    CHOOSE id \in 1..Len(bootstrap.events) :
        \E i \in 1..Len(bootstrap.events) :
            bootstrap.events[i].id = id /\ bootstrap.events[i].is_current
CompletedIds ==
    {bootstrap.events[i].id : i \in {j \in 1..Len(bootstrap.events) :
        bootstrap.events[j].finished /\ bootstrap.events[j].id < CurrentEvent}}

\* the n of them with the highest ids, all of them if there are fewer
LatestCompleted(n) ==
    {gw \in CompletedIds : Cardinality({later \in CompletedIds : later > gw}) < n}

Gameweeks(results) == {results[i].gameweek : i \in 1..Len(results)}

\* C25: a run with a team id returns one result for each of the num_weeks
\* latest gameweeks that are finished and below the current event (all of
\* them if there are fewer) and whose picks could be fetched, in strictly
\* ascending gameweek order; a gameweek whose picks cannot be fetched is
\* left out, the others are not; without a team id, or with no completed
\* gameweek, the result is the empty list.
C25_TargetGameweeks ==
    \A k \in 1..Len(perf_out) :
        /\ perf_out[k].err = "none"
        /\ \A i, j \in 1..Len(perf_out[k].results) :
             i < j => perf_out[k].results[i].gameweek < perf_out[k].results[j].gameweek
        /\ Gameweeks(perf_out[k].results) =
             IF perf_out[k].team_id = NoTeam THEN {}
             ELSE {gw \in LatestCompleted(perf_out[k].num_weeks) : picks[gw].ok}
        /\ (perf_out[k].team_id = NoTeam \/ CompletedIds = {}) => perf_out[k].results = <<>>

\* gameweek 3 is current and finished, so that gameweeks 1 and 2 are
\* replayed: the picks of gameweek 1 cannot be fetched, and the run over two
\* weeks returns the result of gameweek 2 alone; a run over one week on the
\* same manager returns it too
C25_Witness ==
    /\ Len(perf_out) = 2
    /\ CurrentEvent = 3 /\ bootstrap.events[3].finished
    /\ ~picks[1].ok /\ picks[2].ok
    /\ perf_out[1].team_id = EntryId /\ perf_out[1].num_weeks = 2
    /\ Gameweeks(perf_out[1].results) = {2}
    /\ perf_out[2].team_id = EntryId /\ perf_out[2].num_weeks = 1
    /\ Gameweeks(perf_out[2].results) = {2}

\* the last run made
LastRun == perf_out[Len(perf_out)]

\* a history whose records of round gw and later keep their round, venue
\* and opponent and lose everything else
Scrub(hist, gw) ==
    [i \in 1..Len(hist) |->
        IF hist[i].round < gw THEN hist[i]
        ELSE [hist[i] EXCEPT !.total_points = 0, !.minutes = Whole(0),
                             !.expected_goals = Whole(0), !.expected_assists = Whole(0)]]
Scrubbed(upstream, gw) ==
    [id \in DOMAIN upstream |->
        [upstream[id] EXCEPT !.data.history = Scrub(upstream[id].data.history, gw)]]

\* the totals of gameweek gw replayed from the given summaries, no cache
TotalsFrom(upstream, gw) ==
    ReplayRows([err |-> "none", cache |-> <<>>, predicted |-> Whole(0), actual |-> Whole(0)],
               SquadFrame(picks[gw].picks, bootstrap), gw, CaptainId(picks[gw].picks),
               GetProcessedTeams(bootstrap), custom_fdr, upstream)

\* C26: the prediction of gameweek g is made from the history records of
\* round < g only: it is the prediction made when the records of round g
\* and later carry no points, minutes, xG or xA at all; of a record of round
\* g only the venue and the opponent reach the prediction.
C26_PastHistoryOnly ==
    perf_out # <<>> =>
        \A i \in 1..Len(LastRun.results) :
            \A gw \in {LastRun.results[i].gameweek} :
                LastRun.results[i].predicted =
                    Round[TotalsFrom(Scrubbed(summaries, gw), gw).predicted, 1]

\* a run over gameweeks 1 and 2: the prediction of gameweek 1 is made while
\* the records of gameweek 2 are in the history, that of gameweek 2 from the
\* records of gameweek 1, and it is above 0
C26_Witness ==
    /\ perf_out # <<>>
    /\ Gameweeks(LastRun.results) = {1, 2}
    /\ summaries[2].ok /\ Len(summaries[2].data.history) = 2
    /\ RLess[LastRun.results[1].predicted, LastRun.results[2].predicted]
    /\ RLess[Whole(0), LastRun.results[1].predicted]

\* the history the manager gets for a player: [] when the fetch fails
HistoryOf(id) == IF summaries[id].ok THEN summaries[id].data.history ELSE <<>>

\* the squad members of gameweek gw without a record of that gameweek
Absentees(gw) == {id \in PickedIds(gw) : ActualGames(HistoryOf(id), gw) = <<>>}

\* the totals of gameweek gw replayed without the rows of the given players
TotalsWithout(ids, gw) ==
    ReplayRows([err |-> "none", cache |-> <<>>, predicted |-> Whole(0), actual |-> Whole(0)],
               SelectSeq(SquadFrame(picks[gw].picks, bootstrap), LAMBDA p : p.id \notin ids),
               gw, CaptainId(picks[gw].picks), GetProcessedTeams(bootstrap), custom_fdr,
               summaries)

\* the totals of entry res are those of its gameweek without the absentees
SameWithoutAbsentees(res, totals) ==
    /\ res.predicted = Round[totals.predicted, 1]
    /\ res.actual = Round[totals.actual, 0]

\* C27: a squad member with no history record for the replayed gameweek
\* adds 0 to the actual total and 0 to the predicted total of that
\* gameweek, the captain included: both totals are what they are without
\* these players.
C27_AbsenteesAddNothing ==
    perf_out # <<>> =>
        \A i \in 1..Len(LastRun.results) :
            \A totals \in {TotalsWithout(Absentees(LastRun.results[i].gameweek),
                                         LastRun.results[i].gameweek)} :
                SameWithoutAbsentees(LastRun.results[i], totals)

\* gameweek 2 replayed with player 2 as captain, who played gameweek 1 and
\* has no record of gameweek 2, while player 1 does and is predicted above 0
C27_Witness ==
    /\ perf_out # <<>>
    /\ 2 \in Gameweeks(LastRun.results)
    /\ picks[2].ok /\ CaptainId(picks[2].picks) = 2
    /\ summaries[2].ok /\ Len(summaries[2].data.history) = 1
    /\ Absentees(2) = {2}
    /\ \E i \in 1..Len(LastRun.results) :
         LastRun.results[i].gameweek = 2 /\ RLess[Whole(0), LastRun.results[i].predicted]

====
